---- MODULE Spec2Model ----
(***************************************************************************)
(* Model of scripts/formatter.py: the paragraph classifier, the heading    *)
(* splitter, the style applicator, the table layout and the page footer    *)
(* of format_document.                                                     *)
(*                                                                         *)
(* A text is a sequence of Unicode code points (ord(ch) of each character) *)
(* so that the character ranges of the regular expressions and the         *)
(* ord(ch) < 128 test of _text_weight are the ones of the source.          *)
(* Lengths are in points, OOXML line values in twentieths of a point.      *)
(***************************************************************************)
EXTENDS Integers, Sequences, FiniteSets, TLC

VARIABLES
  \* ---- format_document on a whole document ----
  preset,     \* preset_name of the run
  doc,        \* the top-level blocks of the document (paragraphs and tables)
  footers,    \* the odd and the even footer of the section
  margins,    \* the page margins of the section
  pc,         \* the stage format_document is about to run
  run,        \* 1 for the first invocation, 2 for the one on its own output
  input,      \* the blocks of the document as loaded by the first invocation
  saved,      \* what doc.save wrote, one entry per completed invocation
  \* ---- one iteration of the paragraph loop, inputs drawn freely ----
  p_in,       \* the inputs of the iteration
  p_out,      \* the role and the paragraph after the iteration
  p_pc,
  \* ---- _normalize_pcts and the column grid ----
  n_in,       \* weights, min_pct, max_pct
  n_out,      \* the percentages and the gridCol values
  n_pc

vars == <<preset, doc, footers, margins, pc, run, input, saved,
          p_in, p_out, p_pc, n_in, n_out, n_pc>>

docVars  == <<preset, doc, footers, margins, pc, run, input, saved>>
paraVars == <<p_in, p_out, p_pc>>
normVars == <<n_in, n_out, n_pc>>

----------------------------------------------------------------------------
(* Bounds of the model *)

\* longest input document, in top-level blocks
MaxBlocks == 3
\* longest snapshot all_texts drawn for one loop iteration
MaxSnap == 2
\* most empty paragraphs before / after the snapshot's paragraphs
MaxLead == 5
MaxTail == 10
\* most columns of a table given to _normalize_pcts, and the largest weight
\* (in half units: an ASCII character weighs 1, any other character 2)
MaxCols == 3
MaxWeight == 9
\* invocations of add_page_number on one document
MaxCalls == 3
\* most rows of a table below its header row
MaxRows == 2

----------------------------------------------------------------------------
(* Sequences of code points *)

RECURSIVE Sum(_)
Sum(s) == IF s = <<>> THEN 0 ELSE Head(s) + Sum(Tail(s))

RECURSIVE Concat(_)
Concat(ss) == IF ss = <<>> THEN <<>> ELSE Head(ss) \o Concat(Tail(ss))

Max2(a, b) == IF a >= b THEN a ELSE b
Min2(a, b) == IF a <= b THEN a ELSE b

\* s[a..b], empty when b < a
Slice(s, a, b) == IF b < a THEN <<>> ELSE SubSeq(s, a, b)

\* str.isspace / the regex class \s
IsSpace(c) ==
  c \in (9..13) \cup (28..32) \cup {133, 160, 5760} \cup (8192..8202)
         \cup {8232, 8233, 8239, 8287, 12288}
\* the regex class \d: ASCII and full-width decimal digits
IsDigit(c) == (c >= 48 /\ c <= 57) \/ (c >= 65296 /\ c <= 65305)
\* the regex class [一-鿿]
IsCJK(c) == c >= 19968 /\ c <= 40959
\* the regex "." (no DOTALL flag): any character but a newline
IsDot(c) == c # 10

AllDigits(t, a, b) == \A j \in a..b : IsDigit(t[j])
AllSpaces(t, a, b) == \A j \in a..b : IsSpace(t[j])
AllDots(t, a, b)   == \A j \in a..b : IsDot(t[j])
AllIn(t, a, b, S)  == \A j \in a..b : t[j] \in S

\* str.strip()
RECURSIVE LStrip(_)
LStrip(t) == IF t # <<>> /\ IsSpace(Head(t)) THEN LStrip(Tail(t)) ELSE t
RECURSIVE RStrip(_)
RStrip(t) ==
  IF t # <<>> /\ IsSpace(t[Len(t)]) THEN RStrip(SubSeq(t, 1, Len(t) - 1)) ELSE t
Strip(t) == RStrip(LStrip(t))

\* t[a:] starts with w  (a is 1-based)
HasAt(t, a, w) == a + Len(w) - 1 <= Len(t) /\ SubSeq(t, a, a + Len(w) - 1) = w
StartsWith(t, w) == HasAt(t, 1, w)
EndsWith(t, w) == Len(w) <= Len(t) /\ HasAt(t, Len(t) - Len(w) + 1, w)
\* `w in t`
Contains(t, w) == \E a \in 1..(Len(t) + 1) : HasAt(t, a, w)
\* str.find(ch) as a 1-based position, 0 when absent
Find(t, ch) ==
  IF \E j \in 1..Len(t) : t[j] = ch
  THEN CHOOSE j \in 1..Len(t) : t[j] = ch /\ \A k \in 1..(j - 1) : t[k] # ch
  ELSE 0
\* list.index(x) as a 1-based position (only used when x is in the list)
IndexOf(l, x) == CHOOSE j \in 1..Len(l) : l[j] = x /\ \A k \in 1..(j - 1) : l[k] # x

----------------------------------------------------------------------------
(* Character classes and words of the regular expressions *)

\* the character class [一二三四五六七八九十]: 一 二 三 四 五 六 七 八 九 十
CN_NUM == {19968, 20108, 19977, 22235, 20116, 20845, 19971, 20843, 20061, 21313}
\* the class [○〇零oO0]: ○ 〇 零 o O 0
DATE_D5_SECOND == {9675, 12295, 38646, 111, 79, 48}
\* the class [一二三四五六七八九零〇○oO0]: 一 二 三 四 五 六 七 八 九 零 〇 ○ o O 0
DATE_D5_DIGIT == {19968, 20108, 19977, 22235, 20116, 20845, 19971, 20843, 20061, 38646, 12295, 9675, 111, 79, 48}
\* the class [。！？，、；：]: 。 ！ ？ ， 、 ； ：
TITLE_END_PUNCT == {12290, 65281, 65311, 65292, 12289, 65307, 65306}
\* the class [：:]: ： :
COLONS == {65306, 58}
\* the non-space members of [：:．.\s]: ： : ． .
ATTACH_SEP == {65306, 58, 65294, 46}
\* the class [：:、]: ： : 、
LEAD_SEP == {65306, 58, 12289}
\* alternatives after 特此: 说明|通知|报告|函复|函告|批复|公告|通报
CLOSING_TESHI ==
  { <<35828, 26126>>,
    <<36890, 30693>>,
    <<25253, 21578>>,
    <<20989, 22797>>,
    <<20989, 21578>>,
    <<25209, 22797>>,
    <<20844, 21578>>,
    <<36890, 25253>> }
\* alternatives after 以上: 报告|意见|方案
CLOSING_YISHANG ==
  { <<25253, 21578>>,
    <<24847, 35265>>,
    <<26041, 26696>> }
\* alternatives closing a 请 sentence: 批示|审批|审议|指示|核准
CLOSING_QING ==
  { <<25209, 31034>>,
    <<23457, 25209>>,
    <<23457, 35758>>,
    <<25351, 31034>>,
    <<26680, 20934>> }
\* organisation suffixes: 公司|局|委|部|厅|院|所|中心|办公室|集团|银行|学校|大学|医院
ORG_SUFFIX ==
  { <<20844, 21496>>,
    <<23616>>,
    <<22996>>,
    <<37096>>,
    <<21381>>,
    <<38498>>,
    <<25152>>,
    <<20013, 24515>>,
    <<21150, 20844, 23460>>,
    <<38598, 22242>>,
    <<38134, 34892>>,
    <<23398, 26657>>,
    <<22823, 23398>>,
    <<21307, 38498>> }
\* document kinds of the first title pattern: 通知|报告|请示|函|意见|决定|公告|通报|批复|说明|方案|总结|汇报|复函|答复|建议
TITLE_KINDS_1 ==
  { <<36890, 30693>>,
    <<25253, 21578>>,
    <<35831, 31034>>,
    <<20989>>,
    <<24847, 35265>>,
    <<20915, 23450>>,
    <<20844, 21578>>,
    <<36890, 25253>>,
    <<25209, 22797>>,
    <<35828, 26126>>,
    <<26041, 26696>>,
    <<24635, 32467>>,
    <<27719, 25253>>,
    <<22797, 20989>>,
    <<31572, 22797>>,
    <<24314, 35758>> }
\* document kinds of the second title pattern: 通知|报告|请示|函|意见|决定|公告|通报|批复|工作方案|工作总结|实施方案|管理办法|暂行规定
TITLE_KINDS_2 ==
  { <<36890, 30693>>,
    <<25253, 21578>>,
    <<35831, 31034>>,
    <<20989>>,
    <<24847, 35265>>,
    <<20915, 23450>>,
    <<20844, 21578>>,
    <<36890, 25253>>,
    <<25209, 22797>>,
    <<24037, 20316, 26041, 26696>>,
    <<24037, 20316, 24635, 32467>>,
    <<23454, 26045, 26041, 26696>>,
    <<31649, 29702, 21150, 27861>>,
    <<26242, 34892, 35268, 23450>> }
\* "特此"
W_TESHI == <<29305, 27492>>
\* "此致"
W_CIZHI == <<27492, 33268>>
\* "敬礼"
W_JINGLI == <<25964, 31036>>
\* "以上"
W_YISHANG == <<20197, 19978>>
\* "妥否"
W_TUOFOU == <<22949, 21542>>
\* "附件"
W_FUJIAN == <<38468, 20214>>
\* "关于"
W_GUANYU == <<20851, 20110>>
\* "单位"
W_DANWEI == <<21333, 20301>>
\* "合计"
W_HEJI == <<21512, 35745>>
\* "总计"
W_ZONGJI == <<24635, 35745>>
\* "序号"
W_XUHAO == <<24207, 21495>>
\* "序"
W_XU == <<24207>>
\* single characters used by the patterns
CH_DUN == 12289        \* 、
CH_JU == 12290         \* 。
CH_LPAREN_F == 65288   \* （
CH_RPAREN_F == 65289   \* ）
CH_COLON_F == 65306    \* ：
CH_BANG_F == 65281     \* ！
CH_IDEO_SPACE == 12288 \* full-width space
CH_NIAN == 24180       \* 年
CH_YUE == 26376        \* 月
CH_RI == 26085         \* 日
CH_ER == 20108         \* 二
CH_DE == 30340         \* 的
CH_QING == 35831       \* 请
CH_SHI == 26159        \* 是
CH_BIAO == 34920       \* 表
CH_BACKSLASH == 92
CH_COMMA == 44
CH_PERCENT == 37
CH_PERCENT_F == 65285
CH_DOT == 46
CH_ELLIPSIS == 8230
CH_HYPHEN == 45
CH_EMDASH == 8212
CH_COMMA_F == 65292
LEFT_DOUBLE_QUOTE == 8220
RIGHT_DOUBLE_QUOTE == 8221
LEFT_SINGLE_QUOTE == 8216
RIGHT_SINGLE_QUOTE == 8217  \* ％

\* Texts of the model
\* "关于开展安全检查工作的通知"
TxtNotice == <<20851, 20110, 24320, 23637, 23433, 20840, 26816, 26597, 24037, 20316, 30340, 36890, 30693>>
\* "（二）加强宣传教育，营造良好氛围。"
TxtSplit2 == <<65288, 20108, 65289, 21152, 24378, 23459, 20256, 25945, 32946, 65292, 33829, 36896, 33391, 22909, 27675, 22260, 12290>>
\* "（二）加强宣传教育。"
TxtSplit2Head == <<65288, 20108, 65289, 21152, 24378, 23459, 20256, 25945, 32946, 12290>>
\* "营造良好氛围。"
TxtSplit2Tail == <<33829, 36896, 33391, 22909, 27675, 22260, 12290>>
\* "一、甲：1.乙：丙"
TxtNested == <<19968, 12289, 30002, 65306, 49, 46, 20057, 65306, 19993>>
\* "2024年3月15日"
TxtDate == <<50, 48, 50, 52, 24180, 51, 26376, 49, 53, 26085>>
\* "一、概述"
TxtH1 == <<19968, 12289, 27010, 36848>>
\* "一是加强领导"
TxtLead == <<19968, 26159, 21152, 24378, 39046, 23548>>
\* "某某市教育局"
TxtOrg == <<26576, 26576, 24066, 25945, 32946, 23616>>
\* "各单位要高度重视并认真组织落实相关工作"
TxtLong == <<21508, 21333, 20301, 35201, 39640, 24230, 37325, 35270, 24182, 35748, 30495, 32452, 32455, 33853, 23454, 30456, 20851, 24037, 20316>>
\* "请各单位遵照执行。"
TxtBody == <<35831, 21508, 21333, 20301, 36981, 29031, 25191, 34892, 12290>>
\* "表1 经费统计"
TxtTblTitle == <<34920, 49, 32, 32463, 36153, 32479, 35745>>
\* "表\一"
TxtTblTitleBs == <<34920, 92, 19968>>
\* "单位：万元"
TxtUnit == <<21333, 20301, 65306, 19975, 20803>>
\* "单位\：万元"
TxtUnitBs == <<21333, 20301, 92, 65306, 19975, 20803>>
\* ""
TxtBlank == <<>>
\* "　"
TxtSpace == <<12288>>
\* "序号"
TxtXuhao == <<24207, 21495>>
\* "项目"
TxtXiangmu == <<39033, 30446>>
\* "金额"
TxtJine == <<37329, 39069>>
\* "1"
TxtOne == <<49>>
\* "合计"
TxtHeji == <<21512, 35745>>
\* "1,234.50%"
TxtNumeric == <<49, 44, 50, 51, 52, 46, 53, 48, 37>>
\* "\d"
TxtNumericBs == <<92, 100>>
\* "甲"
TxtJia == <<30002>>
\* "乙"
TxtYi == <<20057>>
\* "一、甲. 乙"
TxtDotSplit == <<19968, 12289, 30002, 46, 32, 20057>>
\* "一是甲,乙"
TxtLeadComma == <<19968, 26159, 30002, 44, 20057>>
\* "甲"乙"--丙..."
TxtQuoted == <<30002, 34, 20057, 34, 45, 45, 19993, 46, 46, 46>>
\* "（一）甲。乙:丙"
TxtStopFirst == <<65288, 19968, 65289, 30002, 12290, 20057, 58, 19993>>
\* "甲：乙"
TxtNoMarker == <<30002, 65306, 20057>>
\* "  1. 甲: 乙  "
TxtPadded == <<32, 32, 49, 46, 32, 30002, 58, 32, 20057, 32, 32>>
\* "(1)甲：  "
TxtTailSpace == <<40, 49, 41, 30002, 65306, 32, 32>>
\* "各单位要认真落实。请于月底前上报"
TxtTwoSent == <<21508, 21333, 20301, 35201, 35748, 30495, 33853, 23454, 12290, 35831, 20110, 26376, 24213, 21069, 19978, 25253>>
\* "各有关单位："
TxtRecipient == <<21508, 26377, 20851, 21333, 20301, 65306>>
\* "1.工作目标"
TxtH3 == <<49, 46, 24037, 20316, 30446, 26631>>
\* "（1）明确责任"
TxtH4 == <<65288, 49, 65289, 26126, 30830, 36131, 20219>>
\* "附件：1.名单"
TxtAttach == <<38468, 20214, 65306, 49, 46, 21517, 21333>>
\* "特此通知。"
TxtClosing == <<29305, 27492, 36890, 30693, 12290>>
\* "十一、市教育局"
TxtH1Org == <<21313, 19968, 12289, 24066, 25945, 32946, 23616>>
\* "本年度各项经费总计金额"
TxtZongjiLong == <<26412, 24180, 24230, 21508, 39033, 32463, 36153, 24635, 35745, 37329, 39069>>
\* "本页合"
TxtHeTail == <<26412, 39029, 21512>>
\* "计"
TxtJiHead == <<35745>>
\* "2024.3.15"
TxtDateDot == <<50, 48, 50, 52, 46, 51, 46, 49, 53>>
\* "2024/3/15"
TxtDateSlash == <<50, 48, 50, 52, 47, 51, 47, 49, 53>>
\* "2024-03-15"
TxtDateDash == <<50, 48, 50, 52, 45, 48, 51, 45, 49, 53>>
\* "二〇二四年三月十五日"
TxtDateCn == <<20108, 12295, 20108, 22235, 24180, 19977, 26376, 21313, 20116, 26085>>
\* "一、甲：2024年3月15日"
TxtHeadDate == <<19968, 12289, 30002, 65306, 50, 48, 50, 52, 24180, 51, 26376, 49, 53, 26085>>
\* "一是甲。乙"
TxtLeadStop == <<19968, 26159, 30002, 12290, 20057>>

----------------------------------------------------------------------------
(* detect_para_type: the patterns, in the order they are tried *)

\* ^[一二三四五六七八九十]+、
ReHeading1(t) ==
  \E k \in 1..(Len(t) - 1) : AllIn(t, 1, k, CN_NUM) /\ t[k + 1] = CH_DUN

\* ^（[一二三四五六七八九十]+）  and  ^\([一二三四五六七八九十]+\)
ReParenCN(t, open, close) ==
  /\ Len(t) >= 3
  /\ t[1] = open
  /\ \E k \in 2..(Len(t) - 1) : AllIn(t, 2, k, CN_NUM) /\ t[k + 1] = close
ReHeading2(t) ==
  ReParenCN(t, CH_LPAREN_F, CH_RPAREN_F) \/ ReParenCN(t, 40, 41)

\* ^\d+\.\s*\S
ReHeading3(t) ==
  \E k \in 1..(Len(t) - 2) :
    /\ AllDigits(t, 1, k)
    /\ t[k + 1] = 46
    /\ \E m \in (k + 2)..Len(t) : AllSpaces(t, k + 2, m - 1) /\ ~IsSpace(t[m])

\* ^（\d+）  and  ^\(\d+\)
ReParenDigits(t, open, close) ==
  /\ Len(t) >= 3
  /\ t[1] = open
  /\ \E k \in 2..(Len(t) - 1) : AllDigits(t, 2, k) /\ t[k + 1] = close
ReHeading4(t) ==
  ReParenDigits(t, CH_LPAREN_F, CH_RPAREN_F) \/ ReParenDigits(t, 40, 41)

\* the heading prefixes of _split_heading_by_punct (no length limit there)
HeadingPrefix(t) ==
  ReHeading1(t) \/ ReHeading2(t) \/ ReHeading3(t) \/ ReHeading4(t)

\* ^[一-鿿]+[：:]$
ReRecipient(t) ==
  /\ Len(t) >= 2
  /\ \A j \in 1..(Len(t) - 1) : IsCJK(t[j])
  /\ t[Len(t)] \in COLONS

\* ^附件[：:]\s*  |  ^附件\d*[：:．.\s]  |  ^附件$
ReAttachment(t) ==
  \/ (StartsWith(t, W_FUJIAN) /\ Len(t) >= 3 /\ t[3] \in COLONS)
  \/ (StartsWith(t, W_FUJIAN) /\
      \E k \in 2..(Len(t) - 1) :
        AllDigits(t, 3, k) /\ (t[k + 1] \in ATTACH_SEP \/ IsSpace(t[k + 1])))
  \/ t = W_FUJIAN

\* w followed by an optional last character out of opt, up to the end
EndsOpt(t, a, opt) ==
  a = Len(t) + 1 \/ (a = Len(t) /\ t[a] \in opt)

closing_patterns(t) ==
  \* ^特此(说明|通知|报告|函复|函告|批复|公告|通报)。?$
  \/ (StartsWith(t, W_TESHI) /\
      \E w \in CLOSING_TESHI : HasAt(t, 3, w) /\ EndsOpt(t, 3 + Len(w), {CH_JU}))
  \* ^此致$
  \/ t = W_CIZHI
  \* ^敬礼[！!]?$
  \/ (StartsWith(t, W_JINGLI) /\ EndsOpt(t, 3, {CH_BANG_F, 33}))
  \* ^以上(报告|意见|方案).{0,10}$
  \/ (StartsWith(t, W_YISHANG) /\
      \E w \in CLOSING_YISHANG :
        HasAt(t, 3, w) /\ Len(t) - (2 + Len(w)) <= 10
                       /\ AllDots(t, 3 + Len(w), Len(t)))
  \* ^妥否.{0,10}$
  \/ (StartsWith(t, W_TUOFOU) /\ Len(t) - 2 <= 10 /\ AllDots(t, 3, Len(t)))
  \* ^请.{0,15}(批示|审批|审议|指示|核准)。?$
  \/ (Len(t) >= 1 /\ t[1] = CH_QING /\
      \E w \in CLOSING_QING : \E a \in 2..Min2(17, Len(t)) :
        HasAt(t, a, w) /\ AllDots(t, 2, a - 1) /\ EndsOpt(t, a + Len(w), {CH_JU}))

\* ^\d{4}<s1>\d{1,2}<s2>\d{1,2}<s3>$ where s3 may be empty
ReNumericDate(t, s1, s2, s3) ==
  /\ Len(t) >= 5
  /\ AllDigits(t, 1, 4)
  /\ t[5] = s1
  /\ \E a \in 1..2 : \E b \in 1..2 :
       /\ Len(t) = 5 + a + 1 + b + Len(s3)
       /\ AllDigits(t, 6, 5 + a)
       /\ t[6 + a] = s2
       /\ AllDigits(t, 7 + a, 6 + a + b)
       /\ HasAt(t, 7 + a + b, s3)

\* ^二[○〇零oO0][一二三四五六七八九零〇○oO0]{2}年.{1,3}月.{1,3}日$
ReChineseDate(t) ==
  /\ Len(t) >= 9
  /\ t[1] = CH_ER
  /\ t[2] \in DATE_D5_SECOND
  /\ t[3] \in DATE_D5_DIGIT
  /\ t[4] \in DATE_D5_DIGIT
  /\ t[5] = CH_NIAN
  /\ \E a \in 1..3 : \E b \in 1..3 :
       /\ Len(t) = 5 + a + 1 + b + 1
       /\ AllDots(t, 6, 5 + a)
       /\ t[6 + a] = CH_YUE
       /\ AllDots(t, 7 + a, 6 + a + b)
       /\ t[7 + a + b] = CH_RI

date_patterns(t) ==
  \/ ReNumericDate(t, CH_NIAN, CH_YUE, <<CH_RI>>)
  \/ ReNumericDate(t, 46, 46, <<>>)
  \/ ReNumericDate(t, 47, 47, <<>>)
  \/ ReNumericDate(t, 45, 45, <<>>)
  \/ ReChineseDate(t)

\* (公司|局|委|部|厅|院|所|中心|办公室|集团|银行|学校|大学|医院)$
ReOrgSuffix(t) == \E w \in ORG_SUFFIX : EndsWith(t, w)

\* all_texts[all_texts.index(text)+1:][:3] holds a date
DateFollows(t, all_texts) ==
  /\ \E j \in 1..Len(all_texts) : all_texts[j] = t
  /\ LET at == IndexOf(all_texts, t)
     IN  \E j \in (at + 1)..Min2(at + 3, Len(all_texts)) :
           date_patterns(Strip(all_texts[j]))

title_patterns(t) ==
  \* ^关于.+的(通知|...|建议)$
  \/ (StartsWith(t, W_GUANYU) /\
      \E w \in TITLE_KINDS_1 :
        /\ EndsWith(t, <<CH_DE>> \o w)
        /\ Len(t) - Len(w) - 1 >= 3
        /\ AllDots(t, 3, Len(t) - Len(w) - 1))
  \* ^.{2,30}(通知|...|暂行规定)$
  \/ \E w \in TITLE_KINDS_2 :
        /\ EndsWith(t, w)
        /\ Len(t) - Len(w) >= 2
        /\ Len(t) - Len(w) <= 30
        /\ AllDots(t, 1, Len(t) - Len(w))

\* ^[一二三四五六七八九十\d（(]
ReOrdinalStart(t) ==
  Len(t) >= 1 /\ (t[1] \in CN_NUM \/ IsDigit(t[1]) \/ t[1] \in {CH_LPAREN_F, 40})

\* detect_para_type with the title rule tried before the signature rule
detect_para_type_title_first(text, index, total, alignment, all_texts) ==
  LET t == Strip(text) IN
  IF t = <<>> THEN "empty"
  ELSE IF ReHeading1(t) THEN "heading1"
  ELSE IF ReHeading2(t) THEN "heading2"
  ELSE IF ReHeading3(t) /\ Len(t) < 60 THEN "heading3"
  ELSE IF ReHeading4(t) /\ Len(t) < 60 THEN "heading4"
  ELSE IF ReRecipient(t) /\ Len(t) < 20 THEN "recipient"
  ELSE IF ReAttachment(t) THEN "attachment"
  ELSE IF closing_patterns(t) THEN "closing"
  ELSE IF date_patterns(t) THEN "date"
  ELSE IF /\ index < 5
          /\ \/ title_patterns(t)
             \/ /\ 15 < Len(t)
                /\ Len(t) < 80
                /\ t[Len(t)] \notin TITLE_END_PUNCT
                /\ ~ReOrdinalStart(t)
             \/ (alignment = "center" /\ Len(t) < 60) THEN "title"
  ELSE IF /\ index >= total - 10
          /\ Len(t) < 30
          /\ (ReOrgSuffix(t) \/ DateFollows(t, all_texts)) THEN "signature"
  ELSE "body"

\* detect_para_type with the date rule tried after the signature rule
detect_para_type_signature_first(text, index, total, alignment, all_texts) ==
  LET t == Strip(text) IN
  IF t = <<>> THEN "empty"
  ELSE IF ReHeading1(t) THEN "heading1"
  ELSE IF ReHeading2(t) THEN "heading2"
  ELSE IF ReHeading3(t) /\ Len(t) < 60 THEN "heading3"
  ELSE IF ReHeading4(t) /\ Len(t) < 60 THEN "heading4"
  ELSE IF ReRecipient(t) /\ Len(t) < 20 THEN "recipient"
  ELSE IF ReAttachment(t) THEN "attachment"
  ELSE IF closing_patterns(t) THEN "closing"
  ELSE IF /\ index >= total - 10
          /\ Len(t) < 30
          /\ (ReOrgSuffix(t) \/ DateFollows(t, all_texts)) THEN "signature"
  ELSE IF date_patterns(t) THEN "date"
  ELSE IF /\ index < 5
          /\ \/ title_patterns(t)
             \/ /\ 15 < Len(t)
                /\ Len(t) < 80
                /\ t[Len(t)] \notin TITLE_END_PUNCT
                /\ ~ReOrdinalStart(t)
             \/ (alignment = "center" /\ Len(t) < 60) THEN "title"
  ELSE "body"

\* detect_para_type with the emptiness test made before the text is stripped
detect_para_type_no_strip(text, index, total, alignment, all_texts) ==
  LET t == Strip(text) IN
  IF text = <<>> THEN "empty"
  ELSE IF ReHeading1(t) THEN "heading1"
  ELSE IF ReHeading2(t) THEN "heading2"
  ELSE IF ReHeading3(t) /\ Len(t) < 60 THEN "heading3"
  ELSE IF ReHeading4(t) /\ Len(t) < 60 THEN "heading4"
  ELSE IF ReRecipient(t) /\ Len(t) < 20 THEN "recipient"
  ELSE IF ReAttachment(t) THEN "attachment"
  ELSE IF closing_patterns(t) THEN "closing"
  ELSE IF date_patterns(t) THEN "date"
  ELSE IF /\ index >= total - 10
          /\ Len(t) < 30
          /\ (ReOrgSuffix(t) \/ DateFollows(t, all_texts)) THEN "signature"
  ELSE IF /\ index < 5
          /\ \/ title_patterns(t)
             \/ /\ 15 < Len(t)
                /\ Len(t) < 80
                /\ t[Len(t)] \notin TITLE_END_PUNCT
                /\ ~ReOrdinalStart(t)
             \/ (alignment = "center" /\ Len(t) < 60) THEN "title"
  ELSE "body"

\* detect_para_type with the heading1 rule tried last, before the body fallback
detect_para_type_heading1_last(text, index, total, alignment, all_texts) ==
  LET t == Strip(text) IN
  IF t = <<>> THEN "empty"
  ELSE IF ReHeading2(t) THEN "heading2"
  ELSE IF ReHeading3(t) /\ Len(t) < 60 THEN "heading3"
  ELSE IF ReHeading4(t) /\ Len(t) < 60 THEN "heading4"
  ELSE IF ReRecipient(t) /\ Len(t) < 20 THEN "recipient"
  ELSE IF ReAttachment(t) THEN "attachment"
  ELSE IF closing_patterns(t) THEN "closing"
  ELSE IF date_patterns(t) THEN "date"
  ELSE IF /\ index >= total - 10
          /\ Len(t) < 30
          /\ (ReOrgSuffix(t) \/ DateFollows(t, all_texts)) THEN "signature"
  ELSE IF /\ index < 5
          /\ \/ title_patterns(t)
             \/ /\ 15 < Len(t)
                /\ Len(t) < 80
                /\ t[Len(t)] \notin TITLE_END_PUNCT
                /\ ~ReOrdinalStart(t)
             \/ (alignment = "center" /\ Len(t) < 60) THEN "title"
  ELSE IF ReHeading1(t) THEN "heading1"
  ELSE "body"

detect_para_type(text, index, total, alignment, all_texts) ==
  LET t == Strip(text) IN
  IF t = <<>> THEN "empty"
  ELSE IF ReHeading1(t) THEN "heading1"
  ELSE IF ReHeading2(t) THEN "heading2"
  ELSE IF ReHeading3(t) /\ Len(t) < 60 THEN "heading3"
  ELSE IF ReHeading4(t) /\ Len(t) < 60 THEN "heading4"
  ELSE IF ReRecipient(t) /\ Len(t) < 20 THEN "recipient"
  ELSE IF ReAttachment(t) THEN "attachment"
  ELSE IF closing_patterns(t) THEN "closing"
  ELSE IF date_patterns(t) THEN "date"
  ELSE IF /\ index >= total - 10
          /\ Len(t) < 30
          /\ (ReOrgSuffix(t) \/ DateFollows(t, all_texts)) THEN "signature"
  ELSE IF /\ index < 5
          /\ \/ title_patterns(t)
             \/ /\ 15 < Len(t)
                /\ Len(t) < 80
                /\ t[Len(t)] \notin TITLE_END_PUNCT
                /\ ~ReOrdinalStart(t)
             \/ (alignment = "center" /\ Len(t) < 60) THEN "title"
  ELSE "body"

----------------------------------------------------------------------------
(* The document model: runs, paragraphs *)

\* Python's None where a number is expected (fmt['line_spacing'] = None)
None == 0
\* an attribute python-docx reports as None because the XML does not set it
Unset == -1

\* dict.get(key, default)
Get(d, key, default) == IF key \in DOMAIN d THEN d[key] ELSE default


\* Fonts are named in ASCII: FZXiaoBiaoSong 方正小标宋简体, FangSong_GB2312 仿宋_GB2312,
\* HeiTi 黑体, KaiTi_GB2312 楷体_GB2312, SongTi 宋体.  Page margins are in millimetres.
PRESETS ==
  [ official |->
      [ page |-> [top |-> 37, bottom |-> 35, left |-> 28, right |-> 26],
        title |-> [font_cn |-> "FZXiaoBiaoSong", font_en |-> "Times New Roman", size |-> 22, bold |-> FALSE, align |-> "center", indent |-> 0],
        recipient |-> [font_cn |-> "FangSong_GB2312", font_en |-> "Times New Roman", size |-> 16, bold |-> FALSE, align |-> "left", indent |-> 0],
        heading1 |-> [font_cn |-> "HeiTi", font_en |-> "Times New Roman", size |-> 16, bold |-> FALSE, align |-> "left", indent |-> 32],
        heading2 |-> [font_cn |-> "KaiTi_GB2312", font_en |-> "Times New Roman", size |-> 16, bold |-> FALSE, align |-> "left", indent |-> 32],
        heading3 |-> [font_cn |-> "FangSong_GB2312", font_en |-> "Times New Roman", size |-> 16, bold |-> FALSE, align |-> "left", indent |-> 32],
        heading4 |-> [font_cn |-> "FangSong_GB2312", font_en |-> "Times New Roman", size |-> 16, bold |-> FALSE, align |-> "left", indent |-> 32],
        body |-> [font_cn |-> "FangSong_GB2312", font_en |-> "Times New Roman", size |-> 16, bold |-> FALSE, align |-> "justify", indent |-> 32, line_spacing |-> 28],
        signature |-> [font_cn |-> "FangSong_GB2312", font_en |-> "Times New Roman", size |-> 16, bold |-> FALSE, align |-> "right", indent |-> 0],
        date |-> [font_cn |-> "FangSong_GB2312", font_en |-> "Times New Roman", size |-> 16, bold |-> FALSE, align |-> "right", indent |-> 0],
        attachment |-> [font_cn |-> "FangSong_GB2312", font_en |-> "Times New Roman", size |-> 16, bold |-> FALSE, align |-> "justify", indent |-> 32],
        closing |-> [font_cn |-> "FangSong_GB2312", font_en |-> "Times New Roman", size |-> 16, bold |-> FALSE, align |-> "left", indent |-> 32] ],
    academic |->
      [ page |-> [top |-> 25, bottom |-> 25, left |-> 25, right |-> 25],
        title |-> [font_cn |-> "HeiTi", font_en |-> "Times New Roman", size |-> 18, bold |-> TRUE, align |-> "center", indent |-> 0],
        recipient |-> [font_cn |-> "SongTi", font_en |-> "Times New Roman", size |-> 12, bold |-> FALSE, align |-> "left", indent |-> 0],
        heading1 |-> [font_cn |-> "HeiTi", font_en |-> "Times New Roman", size |-> 15, bold |-> TRUE, align |-> "left", indent |-> 0],
        heading2 |-> [font_cn |-> "HeiTi", font_en |-> "Times New Roman", size |-> 14, bold |-> TRUE, align |-> "left", indent |-> 0],
        heading3 |-> [font_cn |-> "HeiTi", font_en |-> "Times New Roman", size |-> 12, bold |-> FALSE, align |-> "left", indent |-> 0],
        heading4 |-> [font_cn |-> "SongTi", font_en |-> "Times New Roman", size |-> 12, bold |-> FALSE, align |-> "left", indent |-> 0],
        body |-> [font_cn |-> "SongTi", font_en |-> "Times New Roman", size |-> 12, bold |-> FALSE, align |-> "justify", indent |-> 24, line_spacing |-> None],
        signature |-> [font_cn |-> "SongTi", font_en |-> "Times New Roman", size |-> 12, bold |-> FALSE, align |-> "right", indent |-> 0],
        date |-> [font_cn |-> "SongTi", font_en |-> "Times New Roman", size |-> 12, bold |-> FALSE, align |-> "right", indent |-> 0],
        attachment |-> [font_cn |-> "SongTi", font_en |-> "Times New Roman", size |-> 12, bold |-> FALSE, align |-> "left", indent |-> 0],
        closing |-> [font_cn |-> "SongTi", font_en |-> "Times New Roman", size |-> 12, bold |-> FALSE, align |-> "left", indent |-> 24] ],
    legal |->
      [ page |-> [top |-> 30, bottom |-> 25, left |-> 30, right |-> 25],
        title |-> [font_cn |-> "SongTi", font_en |-> "Times New Roman", size |-> 22, bold |-> TRUE, align |-> "center", indent |-> 0],
        recipient |-> [font_cn |-> "SongTi", font_en |-> "Times New Roman", size |-> 14, bold |-> FALSE, align |-> "left", indent |-> 0],
        heading1 |-> [font_cn |-> "HeiTi", font_en |-> "Times New Roman", size |-> 14, bold |-> FALSE, align |-> "left", indent |-> 0],
        heading2 |-> [font_cn |-> "HeiTi", font_en |-> "Times New Roman", size |-> 14, bold |-> FALSE, align |-> "left", indent |-> 0],
        heading3 |-> [font_cn |-> "SongTi", font_en |-> "Times New Roman", size |-> 14, bold |-> FALSE, align |-> "left", indent |-> 0],
        heading4 |-> [font_cn |-> "SongTi", font_en |-> "Times New Roman", size |-> 14, bold |-> FALSE, align |-> "left", indent |-> 0],
        body |-> [font_cn |-> "SongTi", font_en |-> "Times New Roman", size |-> 14, bold |-> FALSE, align |-> "justify", indent |-> 28, line_spacing |-> None],
        signature |-> [font_cn |-> "SongTi", font_en |-> "Times New Roman", size |-> 14, bold |-> FALSE, align |-> "right", indent |-> 0],
        date |-> [font_cn |-> "SongTi", font_en |-> "Times New Roman", size |-> 14, bold |-> FALSE, align |-> "right", indent |-> 0],
        attachment |-> [font_cn |-> "SongTi", font_en |-> "Times New Roman", size |-> 14, bold |-> FALSE, align |-> "left", indent |-> 0],
        closing |-> [font_cn |-> "SongTi", font_en |-> "Times New Roman", size |-> 14, bold |-> FALSE, align |-> "left", indent |-> 28] ] ]

\* what load_custom_preset may return from custom_settings.json: a preset
\* with the bold-first-sentence flag, or settings without the page entry
CUSTOM_SETTINGS ==
  [ custom_bold |-> [first_line_bold |-> TRUE] @@ PRESETS["official"],
    custom_no_page |-> [k \in (DOMAIN PRESETS["official"]) \ {"page"} |->
                          PRESETS["official"][k]],
    custom_no_signature |-> [k \in (DOMAIN PRESETS["official"]) \ {"signature"} |->
                               PRESETS["official"][k]] ]

\* the preset format_document works with
PresetOf(name) ==
  IF name \in DOMAIN PRESETS THEN PRESETS[name] ELSE CUSTOM_SETTINGS[name]

\* paragraph.add_run(text): a run without formatting of its own
add_run(text) ==
  [ text |-> text, font_cn |-> "", font_en |-> "", size |-> Unset,
    bold |-> FALSE, italic |-> FALSE, underline |-> FALSE, strike |-> FALSE,
    double_strike |-> FALSE, subscript |-> FALSE, superscript |-> FALSE,
    color |-> "auto" ]

\* a run as found in an input document: decorated, coloured, in another font
RawRun(text) ==
  [ text |-> text, font_cn |-> "SongTi", font_en |-> "Calibri", size |-> 11,
    bold |-> TRUE, italic |-> TRUE, underline |-> TRUE, strike |-> TRUE,
    double_strike |-> FALSE, subscript |-> FALSE, superscript |-> TRUE,
    color |-> "FF0000" ]

\* a paragraph without paragraph formatting (OxmlElement("w:p"))
NewParagraph(runs) ==
  [ kind |-> "p", runs |-> runs, alignment |-> "none",
    left_indent |-> Unset, right_indent |-> Unset, first_line_indent |-> Unset,
    line_rule |-> "none", line |-> Unset,
    space_before |-> Unset, space_after |-> Unset,
    role |-> "none" ]

\* a paragraph as found in an input document
RawParagraph(text, alignment) ==
  [ NewParagraph(IF text = <<>> THEN <<>> ELSE <<RawRun(text)>>)
      EXCEPT !.alignment = alignment, !.left_indent = 21,
             !.space_after = 10 ]

\* the same paragraph with its text in two runs, when it has two characters
RawParagraphRuns(text, alignment, two_runs) ==
  IF two_runs /\ Len(text) >= 2
  THEN [ RawParagraph(text, alignment) EXCEPT
           !.runs = <<RawRun(SubSeq(text, 1, 1)), RawRun(SubSeq(text, 2, Len(text)))>> ]
  ELSE RawParagraph(text, alignment)

\* Paragraph.text
ParaText(para) == Concat([j \in 1..Len(para.runs) |-> para.runs[j].text])

IsParagraph(b) == b.kind = "p"
IsTable(b) == b.kind = "tbl"
\* Paragraph with no text but white space
IsBlank(b) == IsParagraph(b) /\ Strip(ParaText(b)) = <<>>

----------------------------------------------------------------------------
(* set_font and format_paragraph *)

set_font(r, font_cn, font_en, size, bold) ==
  [ text |-> r.text, font_cn |-> font_cn, font_en |-> font_en, size |-> size,
    bold |-> bold, italic |-> FALSE, underline |-> FALSE, strike |-> FALSE,
    double_strike |-> FALSE, subscript |-> FALSE, superscript |-> FALSE,
    color |-> "000000" ]

\* the default of format_paragraph's parameter line_spacing_pt
line_spacing_pt == 28

\* LineSpacingOf with None as the default of a missing line_spacing entry
LineSpacingOf_default_none(fmt) ==
  LET ls == Get(fmt, "line_spacing", None)
  IN  IF ls # None THEN [rule |-> "exact", line |-> ls * 20]
                   ELSE [rule |-> "auto", line |-> 360]

\* pf.line_spacing_rule = EXACTLY; pf.line_spacing = Pt(ls)  -- or --
\* pf.line_spacing = 1.5 (python-docx stores 1.5 * 240 with lineRule auto)
LineSpacingOf(fmt) ==
  LET ls == Get(fmt, "line_spacing", line_spacing_pt)
  IN  IF ls # None THEN [rule |-> "exact", line |-> ls * 20]
                   ELSE [rule |-> "auto", line |-> 360]

\* ^([一二三四五六七八九十]{1,3}是)([：:、]?) : length of the lead-in, 0 without match.
\* The first group is matched greedily with backtracking, the second greedily.
LeadInLen(t) ==
  LET ks == {k \in 1..3 : k + 1 <= Len(t) /\ AllIn(t, 1, k, CN_NUM)
                           /\ t[k + 1] = CH_SHI}
  IN  IF ks = {} THEN 0
      ELSE LET k == CHOOSE x \in ks : \A y \in ks : y <= x
           IN  IF k + 2 <= Len(t) /\ t[k + 2] \in LEAD_SEP THEN k + 2 ELSE k + 1

\* FormatRuns with the lead-in made bold also when first_line_bold is set
\* and the paragraph has no full stop
FormatRuns_lead_in_too(para, fmt, para_type, first_line_bold) ==
  LET full_text == ParaText(para)
      bold == Get(fmt, "bold", FALSE)
      plain == [j \in 1..Len(para.runs) |->
                  set_font(para.runs[j], fmt.font_cn, fmt.font_en, fmt.size, bold)]
      TwoRuns(at) ==
        <<set_font(add_run(Slice(full_text, 1, at)),
                   fmt.font_cn, fmt.font_en, fmt.size, TRUE)>>
        \o (IF at < Len(full_text)
            THEN <<set_font(add_run(Slice(full_text, at + 1, Len(full_text))),
                            fmt.font_cn, fmt.font_en, fmt.size, bold)>>
            ELSE <<>>)
  IN  IF first_line_bold /\ para_type = "body" /\ Find(full_text, CH_JU) # 0
      THEN TwoRuns(Find(full_text, CH_JU))
      ELSE IF para_type = "body" /\ LeadInLen(full_text) > 0
           THEN TwoRuns(LeadInLen(full_text))
           ELSE plain

\* FormatRuns with set_font called on the first run of the paragraph only
FormatRuns_first_run_only(para, fmt, para_type, first_line_bold) ==
  LET full_text == ParaText(para)
      bold == Get(fmt, "bold", FALSE)
      plain == [j \in 1..Len(para.runs) |->
                  IF j = 1
                  THEN set_font(para.runs[j], fmt.font_cn, fmt.font_en, fmt.size, bold)
                  ELSE para.runs[j]]
      TwoRuns(at) ==
        <<set_font(add_run(Slice(full_text, 1, at)),
                   fmt.font_cn, fmt.font_en, fmt.size, TRUE)>>
        \o (IF at < Len(full_text)
            THEN <<add_run(Slice(full_text, at + 1, Len(full_text)))>>
            ELSE <<>>)
  IN  IF first_line_bold /\ para_type = "body"
      THEN IF Find(full_text, CH_JU) # 0
           THEN TwoRuns(Find(full_text, CH_JU))
           ELSE plain
      ELSE IF para_type = "body" /\ LeadInLen(full_text) > 0
           THEN TwoRuns(LeadInLen(full_text))
           ELSE plain

\* the runs of the paragraph after the font part of format_paragraph
FormatRuns(para, fmt, para_type, first_line_bold) ==
  LET full_text == ParaText(para)
      bold == Get(fmt, "bold", FALSE)
      plain == [j \in 1..Len(para.runs) |->
                  set_font(para.runs[j], fmt.font_cn, fmt.font_en, fmt.size, bold)]
      TwoRuns(at) ==
        <<set_font(add_run(Slice(full_text, 1, at)),
                   fmt.font_cn, fmt.font_en, fmt.size, TRUE)>>
        \o (IF at < Len(full_text)
            THEN <<set_font(add_run(Slice(full_text, at + 1, Len(full_text))),
                            fmt.font_cn, fmt.font_en, fmt.size, bold)>>
            ELSE <<>>)
  IN  IF first_line_bold /\ para_type = "body"
      THEN IF Find(full_text, CH_JU) # 0
           THEN TwoRuns(Find(full_text, CH_JU))
           ELSE plain
      ELSE IF para_type = "body" /\ LeadInLen(full_text) > 0
           THEN TwoRuns(LeadInLen(full_text))
           ELSE plain

ALIGNS == {"center", "left", "right", "justify"}

format_paragraph(para, fmt, para_type, first_line_bold) ==
  LET align == Get(fmt, "align", "justify")
      indent == Get(fmt, "indent", 0)
      sp == LineSpacingOf(fmt)
  IN  [ para EXCEPT
          !.alignment = IF align \in ALIGNS THEN align ELSE "justify",
          !.left_indent = 0,
          !.right_indent = 0,
          !.first_line_indent = IF indent > 0 THEN indent ELSE 0,
          !.line_rule = sp.rule,
          !.line = sp.line,
          !.space_before = Get(fmt, "space_before", 0),
          !.space_after = Get(fmt, "space_after", 0),
          !.runs = FormatRuns(para, fmt, para_type, first_line_bold) ]

\* preset.get('first_line_bold', False)
FirstLineBold(p) == Get(p, "first_line_bold", FALSE)

\* the body of the paragraph loop of format_document for paragraph number i:
\* skip an empty paragraph, else classify, pick the StyleSpec and apply it
StyleOne(para, i, total_paras, all_texts, p) ==
  LET text == Strip(ParaText(para))
      para_type == detect_para_type(text, i, total_paras, para.alignment, all_texts)
      fmt_key == IF para_type \in DOMAIN p THEN para_type ELSE "body"
  IN  IF text = <<>> THEN para
      ELSE [ format_paragraph(para, p[fmt_key], para_type, FirstLineBold(p))
               EXCEPT !.role = para_type ]

----------------------------------------------------------------------------
(* _split_heading_by_punct *)

\* SplitIdx with the comma '，' taken for a split point as well
SplitIdx_with_comma(t) ==
  LET ps == {Find(t, ch) : ch \in {CH_COLON_F, 58, CH_JU, 65292}} \ {0}
  IN  IF ps = {} THEN 0 ELSE CHOOSE x \in ps : \A y \in ps : x <= y

\* min of the first positions of '：', ':' and '。', 0 when none occurs
SplitIdx(t) ==
  LET ps == {Find(t, ch) : ch \in {CH_COLON_F, 58, CH_JU}} \ {0}
  IN  IF ps = {} THEN 0 ELSE CHOOSE x \in ps : \A y \in ps : x <= y

\* _split_heading_by_punct with the mark left out of the head paragraph
_split_heading_by_punct_drops_mark(paragraph) ==
  LET text == Strip(ParaText(paragraph))
      split_idx == SplitIdx(text)
      head == Strip(Slice(text, 1, split_idx - 1))
      tail == Strip(Slice(text, split_idx + 1, Len(text)))
  IN  IF text = <<>> \/ ~HeadingPrefix(text) \/ split_idx = 0 \/ tail = <<>>
      THEN <<paragraph>>
      ELSE << [paragraph EXCEPT !.runs = <<add_run(head)>>],
              NewParagraph(<<add_run(tail)>>) >>

\* _split_heading_by_punct without the test that text follows the mark
_split_heading_by_punct_empty_tail(paragraph) ==
  LET text == Strip(ParaText(paragraph))
      split_idx == SplitIdx(text)
      head == Strip(Slice(text, 1, split_idx))
      tail == Strip(Slice(text, split_idx + 1, Len(text)))
  IN  IF text = <<>> \/ ~HeadingPrefix(text) \/ split_idx = 0
      THEN <<paragraph>>
      ELSE << [paragraph EXCEPT !.runs = <<add_run(head)>>],
              NewParagraph(<<add_run(tail)>>) >>

\* the paragraphs that take the place of the paragraph: itself, or the head
\* (paragraph.text = head keeps the paragraph formatting and leaves one plain
\* run) followed by a new unformatted paragraph holding the tail
_split_heading_by_punct(paragraph) ==
  LET text == Strip(ParaText(paragraph))
      split_idx == SplitIdx(text)
      head == Strip(Slice(text, 1, split_idx))
      tail == Strip(Slice(text, split_idx + 1, Len(text)))
  IN  IF text = <<>> \/ ~HeadingPrefix(text) \/ split_idx = 0 \/ tail = <<>>
      THEN <<paragraph>>
      ELSE << [paragraph EXCEPT !.runs = <<add_run(head)>>],
              NewParagraph(<<add_run(tail)>>) >>

\* for para in list(doc.paragraphs): _split_heading_by_punct(para)
RECURSIVE SplitAll(_)
SplitAll(blocks) ==
  IF blocks = <<>> THEN <<>>
  ELSE (IF IsParagraph(Head(blocks)) THEN _split_heading_by_punct(Head(blocks))
                                     ELSE <<Head(blocks)>>)
       \o SplitAll(Tail(blocks))

----------------------------------------------------------------------------
(* The paragraph pass of format_document *)

\* doc.paragraphs: the top-level paragraphs, tables left out
Paragraphs(blocks) == SelectSeq(blocks, IsParagraph)

\* [p.text.strip() for p in doc.paragraphs if p.text.strip()]
RECURSIVE AllTexts(_)
AllTexts(blocks) ==
  IF blocks = <<>> THEN <<>>
  ELSE (IF IsParagraph(Head(blocks)) /\ Strip(ParaText(Head(blocks))) # <<>>
        THEN <<Strip(ParaText(Head(blocks)))>> ELSE <<>>)
       \o AllTexts(Tail(blocks))

\* number of paragraphs among the first n blocks
ParasBefore(blocks, n) == Len(Paragraphs(SubSeq(blocks, 1, n)))

\* for i, para in enumerate(doc.paragraphs): ... format_paragraph(...)
\* from block j on; total_paras and all_texts were taken before the loop
RECURSIVE StyleFrom(_, _, _, _, _)
StyleFrom(blocks, j, total_paras, all_texts, p) ==
  IF j > Len(blocks) THEN blocks
  ELSE StyleFrom(
         [ blocks EXCEPT ![j] =
             IF IsParagraph(@)
             THEN StyleOne(@, ParasBefore(blocks, j - 1), total_paras, all_texts, p)
             ELSE @ ],
         j + 1, total_paras, all_texts, p)

StyleAll(blocks, p) ==
  StyleFrom(blocks, 1, Len(Paragraphs(blocks)), AllTexts(blocks), p)

----------------------------------------------------------------------------
(* _text_weight, _normalize_pcts and the column grid                        *)
(*                                                                          *)
(* Weights are counted in half units (an ASCII character 1, any other       *)
(* character 2), so that they are integers.  A percentage is the exact      *)
(* fraction num/den, kept as the pair <<num, den>>; the source computes     *)
(* the same quotients in binary floating point.                             *)

RECURSIVE _text_weight(_)
_text_weight(text) ==
  IF text = <<>> THEN 0
  ELSE (IF Head(text) < 128 THEN 1 ELSE 2) + _text_weight(Tail(text))

\* a < b, a > b and a <= b for fractions with positive denominators
FracLess(a, b) == a[1] * b[2] < b[1] * a[2]
FracLeq(a, b)  == a[1] * b[2] <= b[1] * a[2]

RECURSIVE SumNum(_)
SumNum(fs) == IF fs = <<>> THEN 0 ELSE Head(fs)[1] + SumNum(Tail(fs))

\* weights in half units; the result is a sequence of fractions
_normalize_pcts(weights, min_pct, max_pct) ==
  LET \* total = sum(weights) or 1.0, in half units
      total == IF Sum(weights) = 0 THEN 2 ELSE Sum(weights)
      \* every percentage over the common denominator total
      pcts == [i \in 1..Len(weights) |-> <<weights[i] * 100, total>>]
      low  == [i \in 1..Len(weights) |->
                 IF FracLess(pcts[i], <<min_pct, 1>>)
                 THEN <<min_pct * total, total>> ELSE pcts[i]]
      high == [i \in 1..Len(weights) |->
                 IF FracLess(<<max_pct, 1>>, low[i])
                 THEN <<max_pct * total, total>> ELSE low[i]]
      \* total = sum(pcts) or 1.0, as a numerator over the denominator total
      sum2 == SumNum(high)
  IN  [i \in 1..Len(weights) |->
         IF sum2 = 0 THEN <<high[i][1] * 100, total>>
                     ELSE <<high[i][1] * 100, sum2>>]

\* int(pct * 50): the gridCol / tcW value, in fiftieths of a percent
Pct50(f) == (f[1] * 50) \div f[2]

----------------------------------------------------------------------------
(* Tables *)

\* a table cell / row / table as found in an input document
RawCell(text) ==
  [paras |-> <<RawParagraph(text, "left")>>, tcW |-> Unset, border_sz |-> Unset]
\* a cell with one paragraph for each of the texts
RawCellParas(texts) ==
  [ paras |-> [j \in 1..Len(texts) |-> RawParagraph(texts[j], "left")],
    tcW |-> Unset, border_sz |-> Unset ]
RawRow(texts) ==
  [ cells |-> [c \in 1..Len(texts) |-> RawCell(texts[c])],
    height |-> Unset, height_rule |-> "none" ]
RawTable(rows) ==
  [ kind |-> "tbl", rows |-> [r \in 1..Len(rows) |-> RawRow(rows[r])],
    grid |-> <<>>, autofit |-> TRUE, width_type |-> "auto", width |-> 0,
    indent |-> Unset, border_sz |-> Unset,
    cell_mar |-> [top |-> Unset, bottom |-> Unset, left |-> Unset, right |-> Unset] ]

\* ''.join(p.text for p in cell.paragraphs).strip()
CellText(cell) ==
  Strip(Concat([j \in 1..Len(cell.paras) |-> ParaText(cell.paras[j])]))

\* text.replace(',', '').replace('％', '%')
RECURSIVE NumericClean(_)
NumericClean(t) ==
  IF t = <<>> THEN <<>>
  ELSE (IF Head(t) = CH_COMMA THEN <<>>
        ELSE IF Head(t) = CH_PERCENT_F THEN <<CH_PERCENT>>
        ELSE <<Head(t)>>) \o NumericClean(Tail(t))

\* the pattern of _is_numeric_text as the raw string literal spells it,
\* r'^[-+]?\\d+(?:\\.\\d+)?%?$': in a raw string \\ is the regex for one
\* backslash, so that \\d+ reads "a backslash, then one or more letters d"
\* and \\. reads "a backslash, then any character"
ReNumericLiteral(t) ==
  \E a \in 1..2 :
    /\ (a = 2 => (Len(t) >= 1 /\ t[1] \in {45, 43}))
    /\ Len(t) >= a + 1
    /\ t[a] = CH_BACKSLASH
    /\ \E k \in (a + 1)..Len(t) :
         /\ AllIn(t, a + 1, k, {100})
         /\ \/ EndsOpt(t, k + 1, {CH_PERCENT})
            \/ /\ Len(t) >= k + 4
               /\ t[k + 1] = CH_BACKSLASH
               /\ IsDot(t[k + 2])
               /\ t[k + 3] = CH_BACKSLASH
               /\ \E m \in (k + 4)..Len(t) :
                    AllIn(t, k + 4, m, {100}) /\ EndsOpt(t, m + 1, {CH_PERCENT})

_is_numeric_text(text) ==
  LET t == Strip(NumericClean(text))
  IN  t # <<>> /\ ReNumericLiteral(t)

_is_short_text(text, max_len) ==
  LET t == Strip(text) IN 0 < Len(t) /\ Len(t) <= max_len

\* r'^表\\s*(?:\\d+|[一二三四五六七八九十]+)(?:[\\-\\—\\._、]\\d+)?' as spelt:
\* 表, a backslash, any number of letters s, then either a backslash and
\* letters d or Chinese numerals; the optional group never decides a match
ReTableTitleLiteral(t) ==
  /\ Len(t) >= 3
  /\ t[1] = CH_BIAO
  /\ t[2] = CH_BACKSLASH
  /\ \E a \in 3..Len(t) :
       /\ AllIn(t, 3, a - 1, {115})
       /\ \/ t[a] \in CN_NUM
          \/ (t[a] = CH_BACKSLASH /\ a + 1 <= Len(t) /\ t[a + 1] = 100)

_is_table_title(text) ==
  LET t == Strip(text)
  IN  t # <<>> /\ Len(t) <= 30 /\ ReTableTitleLiteral(t)

\* r'^单位\\s*[:：]' as spelt: 单位, a backslash, letters s, a colon
ReTableUnitLiteral(t) ==
  /\ StartsWith(t, W_DANWEI)
  /\ Len(t) >= 4
  /\ t[3] = CH_BACKSLASH
  /\ \E a \in 4..Len(t) : AllIn(t, 4, a - 1, {115}) /\ t[a] \in COLONS

_is_table_unit(text) ==
  LET t == Strip(text)
  IN  t # <<>> /\ Len(t) <= 20 /\ ReTableUnitLiteral(t)

\* Lengths of the table settings are kept in the unit the file stores:
\* border_size_pt in eighths of a point (0.5 pt), row_height_cm in
\* millimetres (0.7 cm), the cell margins in twips (0.05 cm is 28 twips),
\* unit_space_before_lines in tenths (0.5)
table_defaults ==
  [ optimize |-> TRUE, border_size_pt |-> 4, width_percent |-> 100,
    auto_col_width |-> TRUE, col_min_pct |-> 8, col_max_pct |-> 45,
    row_height_cm |-> 7, cell_margin_top_cm |-> 0, cell_margin_bottom_cm |-> 0,
    cell_margin_left_cm |-> 28, cell_margin_right_cm |-> 28,
    paragraph_single |-> TRUE, after_table_blank_line |-> TRUE,
    title_align |-> "center", unit_align |-> "right",
    unit_space_before_lines |-> 5, short_text_len |-> 4 ]

EmptyDict == [k \in {} |-> 0]

\* {**table_defaults, **table_fmt}
Merge(d1, d2) ==
  [k \in (DOMAIN d1) \cup (DOMAIN d2) |-> IF k \in DOMAIN d2 THEN d2[k] ELSE d1[k]]

\* the table font settings: the preset's table entry, else its body entry
TableFont(p) ==
  LET body_fmt == Get(p, "body", EmptyDict)
      table_fmt == Get(p, "table", EmptyDict)
  IN  [ font_cn |-> Get(table_fmt, "font_cn", Get(body_fmt, "font_cn", "FangSong_GB2312")),
        font_en |-> Get(table_fmt, "font_en", Get(body_fmt, "font_en", "Times New Roman")),
        size |-> Get(table_fmt, "size", Get(body_fmt, "size", 16)),
        bold |-> Get(table_fmt, "bold", FALSE),
        line_spacing |-> Get(table_fmt, "line_spacing", Get(body_fmt, "line_spacing", 28)),
        header_bold |-> Get(table_fmt, "header_bold", FALSE),
        first_line_indent |-> Get(table_fmt, "first_line_indent", 0) ]

\* max(len(row.cells) for row in table.rows)
ColCount(table) ==
  LET ns == {Len(table.rows[r].cells) : r \in 1..Len(table.rows)}
  IN  CHOOSE n \in ns : \A m \in ns : m <= n

\* max_weights of _set_table_col_widths_by_content, in half units
MaxWeights(table) ==
  [ c \in 1..ColCount(table) |->
      LET ws == {2} \cup
                { _text_weight(CellText(table.rows[r].cells[c])) :
                    r \in {x \in 1..Len(table.rows) : c <= Len(table.rows[x].cells)} }
      IN  CHOOSE w \in ws : \A v \in ws : v <= w ]

_set_table_col_widths_by_content(table, min_pct, max_pct) ==
  IF table.rows = <<>> THEN table
  ELSE LET pcts == _normalize_pcts(MaxWeights(table), min_pct, max_pct)
       IN  [ table EXCEPT
               !.grid = [c \in 1..Len(pcts) |-> Pct50(pcts[c])],
               !.rows = [r \in 1..Len(table.rows) |->
                  [ table.rows[r] EXCEPT !.cells =
                      [c \in 1..Len(table.rows[r].cells) |->
                         [ table.rows[r].cells[c] EXCEPT !.tcW = Pct50(pcts[c]) ]] ]] ]

\* the table-level settings of one table (the `optimize` block)
OptimizeTable(table, cfg) ==
  IF ~cfg.optimize THEN table
  ELSE LET t1 == [ table EXCEPT
                     !.autofit = ~cfg.auto_col_width,
                     !.width_type = "pct",
                     !.width = Max2(1, Min2(100, cfg.width_percent)) * 50,
                     !.indent = 0,
                     !.border_sz = Max2(1, cfg.border_size_pt),
                     !.cell_mar = [ top |-> cfg.cell_margin_top_cm,
                                    bottom |-> cfg.cell_margin_bottom_cm,
                                    left |-> cfg.cell_margin_left_cm,
                                    right |-> cfg.cell_margin_right_cm ] ]
       IN  IF cfg.auto_col_width
           THEN _set_table_col_widths_by_content(t1, cfg.col_min_pct, cfg.col_max_pct)
           ELSE t1

\* index of the serial-number column, 0 when there is none
SerialCol(table) ==
  IF table.rows = <<>> THEN 0
  ELSE LET cells == table.rows[1].cells
           hit == {c \in 1..Len(cells) :
                     Contains(CellText(cells[c]), W_XUHAO) \/ CellText(cells[c]) = W_XU}
       IN  IF hit = {} THEN 0 ELSE CHOOSE c \in hit : \A d \in hit : c <= d

\* CellAlign without the rule for cells that hold a total
CellAlign_without_totals(row_idx, col_idx, serial_col_idx, cell_text, cfg) ==
  IF row_idx = 1 THEN "center"
  ELSE IF serial_col_idx # 0 /\ col_idx = serial_col_idx THEN "center"
  ELSE IF _is_numeric_text(cell_text) THEN "right"
  ELSE IF _is_short_text(cell_text, cfg.short_text_len) THEN "center"
  ELSE "left"

\* the alignment policy of a cell paragraph
CellAlign(row_idx, col_idx, serial_col_idx, cell_text, cfg) ==
  IF row_idx = 1 THEN "center"
  ELSE IF Contains(cell_text, W_HEJI) \/ Contains(cell_text, W_ZONGJI) THEN "center"
  ELSE IF serial_col_idx # 0 /\ col_idx = serial_col_idx THEN "center"
  ELSE IF _is_numeric_text(cell_text) THEN "right"
  ELSE IF _is_short_text(cell_text, cfg.short_text_len) THEN "center"
  ELSE "left"

\* one paragraph of a cell: fonts, paragraph format, alignment
CellPara(para, row_idx, col_idx, serial_col_idx, cell_text, cfg, tf) ==
  LET is_header == (row_idx = 1 /\ tf.header_bold)
      runs == IF Strip(ParaText(para)) # <<>>
              THEN [j \in 1..Len(para.runs) |->
                      set_font(para.runs[j], tf.font_cn, tf.font_en, tf.size,
                               tf.bold \/ is_header)]
              ELSE para.runs
      sp == IF cfg.paragraph_single THEN [rule |-> "auto", line |-> 240]
            ELSE IF tf.line_spacing # None
                 THEN [rule |-> "exact", line |-> tf.line_spacing * 20]
                 ELSE [rule |-> "auto", line |-> 360]
  IN  [ para EXCEPT
          !.runs = runs,
          !.first_line_indent = tf.first_line_indent,
          !.space_before = 0,
          !.space_after = 0,
          !.line_rule = sp.rule,
          !.line = sp.line,
          !.alignment = CellAlign(row_idx, col_idx, serial_col_idx, cell_text, cfg) ]

\* the rows of the table: row height, cell borders, cell paragraphs
FormatCells(table, cfg, tf) ==
  LET serial_col_idx == SerialCol(table)
  IN  [ table EXCEPT !.rows =
          [ r \in 1..Len(table.rows) |->
              [ cells |->
                  [ c \in 1..Len(table.rows[r].cells) |->
                      LET cell == table.rows[r].cells[c]
                      IN  [ cell EXCEPT
                              !.border_sz = IF cfg.optimize
                                            THEN Max2(1, cfg.border_size_pt) ELSE @,
                              !.paras = [ j \in 1..Len(cell.paras) |->
                                 CellPara(cell.paras[j], r, c, serial_col_idx,
                                          CellText(cell), cfg, tf) ] ] ],
                height |-> IF cfg.row_height_cm # 0 THEN cfg.row_height_cm
                           ELSE table.rows[r].height,
                height_rule |-> IF cfg.row_height_cm # 0 THEN "atLeast"
                                ELSE table.rows[r].height_rule ] ] ]

----------------------------------------------------------------------------
(* The table pass of format_document                                        *)
(*                                                                          *)
(* The pass walks blocks = list(_iter_block_items(doc)), a list taken once: *)
(* paragraphs it inserts are in the document but not in the list.  Entry j  *)
(* of the walk state holds block j of the list with the number of blank     *)
(* paragraphs inserted right before it and right after it so far.           *)

BlankParagraph == NewParagraph(<<>>)

WalkInit(blocks) ==
  [j \in 1..Len(blocks) |-> [pre |-> 0, blk |-> blocks[j], post |-> 0]]

RECURSIVE Blanks(_)
Blanks(n) == IF n = 0 THEN <<>> ELSE <<BlankParagraph>> \o Blanks(n - 1)

RECURSIVE WalkBlocks(_)
WalkBlocks(st) ==
  IF st = <<>> THEN <<>>
  ELSE Blanks(Head(st).pre) \o <<Head(st).blk>> \o Blanks(Head(st).post)
       \o WalkBlocks(Tail(st))

\* BlankBefore with a centred paragraph before the table taken for its
\* title as well
BlankBefore_centred_is_title(st, idx) ==
  IF idx = 1 THEN [st EXCEPT ![idx].pre = @ + 1]
  ELSE LET prev_block == st[idx - 1].blk
       IN  IF IsParagraph(prev_block)
           THEN IF Strip(ParaText(prev_block)) # <<>>
                THEN IF _is_table_title(ParaText(prev_block))
                        \/ _is_table_unit(ParaText(prev_block))
                        \/ prev_block.alignment = "center"
                     THEN [st EXCEPT ![idx - 1].pre = @ + 1]
                     ELSE [st EXCEPT ![idx].pre = @ + 1]
                ELSE st
           ELSE [st EXCEPT ![idx - 1].post = @ + 1]

\* the blank line before the table at idx
BlankBefore(st, idx) ==
  IF idx = 1 THEN [st EXCEPT ![idx].pre = @ + 1]
  ELSE LET prev_block == st[idx - 1].blk
       IN  IF IsParagraph(prev_block)
           THEN IF Strip(ParaText(prev_block)) # <<>>
                THEN IF _is_table_title(ParaText(prev_block))
                        \/ _is_table_unit(ParaText(prev_block))
                     THEN [st EXCEPT ![idx - 1].pre = @ + 1]
                     ELSE [st EXCEPT ![idx].pre = @ + 1]
                ELSE st
           ELSE [st EXCEPT ![idx - 1].post = @ + 1]

\* the title paragraph right before the table
TitleCaption(st, idx, cfg) ==
  IF idx > 1 /\ IsParagraph(st[idx - 1].blk)
     /\ _is_table_title(ParaText(st[idx - 1].blk))
  THEN [ st EXCEPT ![idx - 1].blk =
           [ @ EXCEPT !.alignment = IF cfg.title_align = "center" THEN "center" ELSE @,
                      !.space_before = 0,
                      !.space_after = 0,
                      !.line_rule = "auto",
                      !.line = 240 ] ]
  ELSE st

HasUnit(st, idx) ==
  idx + 1 <= Len(st) /\ IsParagraph(st[idx + 1].blk)
  /\ _is_table_unit(ParaText(st[idx + 1].blk))

\* the unit paragraph right after the table
UnitCaption(st, idx, cfg, tf) ==
  IF HasUnit(st, idx)
  THEN [ st EXCEPT ![idx + 1].blk =
           [ @ EXCEPT !.alignment = IF cfg.unit_align = "right" THEN "right" ELSE @,
                      !.space_before = (tf.size * cfg.unit_space_before_lines) \div 10,
                      !.space_after = 0,
                      !.line_rule = "auto",
                      !.line = 240 ] ]
  ELSE st

\* the blank line after the table at idx (after its unit paragraph if any)
BlankAfter(st, idx, cfg) ==
  IF ~cfg.after_table_blank_line THEN st
  ELSE IF HasUnit(st, idx)
       THEN IF idx + 2 <= Len(st) /\ IsBlank(st[idx + 2].blk)
            THEN st ELSE [st EXCEPT ![idx + 1].post = @ + 1]
       ELSE IF idx + 1 <= Len(st) /\ IsBlank(st[idx + 1].blk)
            THEN st ELSE [st EXCEPT ![idx].post = @ + 1]

\* one iteration of `for idx, block in enumerate(blocks)` for a table
TableStep(st, idx, cfg, tf) ==
  LET s1 == [st EXCEPT ![idx].blk = OptimizeTable(@, cfg)]
      s2 == BlankBefore(s1, idx)
      s3 == TitleCaption(s2, idx, cfg)
      s4 == UnitCaption(s3, idx, cfg, tf)
      s5 == [s4 EXCEPT ![idx].blk = FormatCells(@, cfg, tf)]
  IN  BlankAfter(s5, idx, cfg)

RECURSIVE TableWalk(_, _, _, _)
TableWalk(st, idx, cfg, tf) ==
  IF idx > Len(st) THEN st
  ELSE TableWalk(IF IsTable(st[idx].blk) THEN TableStep(st, idx, cfg, tf) ELSE st,
                 idx + 1, cfg, tf)

TableCfg(p) == Merge(table_defaults, Get(p, "table", EmptyDict))

LayoutTables(blocks, p) ==
  WalkBlocks(TableWalk(WalkInit(blocks), 1, TableCfg(p), TableFont(p)))

----------------------------------------------------------------------------
(* add_page_number *)

\* footer runs: the text, or the field part the run carries
FooterRun(text, fld, font_name) ==
  [run |-> set_font(add_run(text), font_name, font_name, 14, FALSE), fld |-> fld]

\* _build_footer_line on the footer's first paragraph, whose runs were cleared
_build_footer_line(paras, align, pad_fullwidth, font_name) ==
  LET base == IF paras # <<>> THEN paras
              ELSE <<[alignment |-> "none", runs |-> <<>>]>>
      line == (IF pad_fullwidth THEN <<FooterRun(<<CH_IDEO_SPACE>>, "none", font_name)>>
               ELSE <<>>)
              \o << FooterRun(<<8212, 32>>, "none", font_name),
                    FooterRun(<<>>, "begin", font_name),
                    FooterRun(<<>>, "PAGE", font_name),
                    FooterRun(<<>>, "end", font_name),
                    FooterRun(<<32, 8212>>, "none", font_name) >>
              \o (IF ~pad_fullwidth
                  THEN <<FooterRun(<<CH_IDEO_SPACE>>, "none", font_name)>> ELSE <<>>)
  IN  [base EXCEPT ![1] = [alignment |-> align, runs |-> base[1].runs \o line]]

\* ClearFooter leaving the runs where they are
ClearFooter_keeping_runs(paras) == paras

\* para.clear() on every paragraph of a footer
ClearFooter(paras) == [j \in 1..Len(paras) |-> [paras[j] EXCEPT !.runs = <<>>]]

\* footer_distance in millimetres (Cm(0.7))
add_page_number(f, font_name) ==
  [ odd_even |-> TRUE,
    distance |-> 7,
    odd  |-> _build_footer_line(ClearFooter(f.odd), "right", TRUE, font_name),
    even |-> _build_footer_line(ClearFooter(f.even), "left", FALSE, font_name) ]

\* the footers of an input document: an old centred page number
RawFooters ==
  [ odd_even |-> FALSE, distance |-> 15,
    odd  |-> <<[alignment |-> "center",
                runs |-> <<[run |-> RawRun(<<49>>), fld |-> "none"]>>]>>,
    even |-> <<[alignment |-> "none", runs |-> <<>>]>> ]

----------------------------------------------------------------------------
(* punctuation.py: fix_text, process_paragraph, process_document *)

\* REPLACEMENTS: ( ) : ; ? ! and their full-width forms
REPLACEMENTS ==
  (40 :> 65288) @@ (41 :> 65289) @@ (58 :> 65306) @@ (59 :> 65307)
  @@ (63 :> 65311) @@ (33 :> 65281)

\* double_quote_chars: " \u201c \u201d \u201e \u201f \u300c \u300d
double_quote_chars == {34, 8220, 8221, 8222, 8223, 12300, 12301}
\* single_quote_chars: ' \u2018 \u2019 \u201a \u201b
single_quote_chars == {39, 8216, 8217, 8218, 8219}

\* re.search(r"[\u4e00-\u9fff]", text)
has_chinese(text) == \E j \in 1..Len(text) : IsCJK(text[j])

\* number of ch at the start of t
RECURSIVE RunLen(_, _)
RunLen(t, ch) == IF t # <<>> /\ Head(t) = ch THEN 1 + RunLen(Tail(t), ch) ELSE 0

\* re.sub(ch{2,}, rep, t): every maximal run of two or more ch becomes rep
RECURSIVE CollapseRuns(_, _, _)
CollapseRuns(t, ch, rep) ==
  IF t = <<>> THEN <<>>
  ELSE LET n == RunLen(t, ch)
       IN  IF n >= 2 THEN rep \o CollapseRuns(SubSeq(t, n + 1, Len(t)), ch, rep)
           ELSE <<Head(t)>> \o CollapseRuns(Tail(t), ch, rep)

\* re.sub(r"—(?!—)", "——", t): a dash no dash follows is doubled
DoubleLastDash(t) ==
  Concat([j \in 1..Len(t) |->
            IF t[j] = CH_EMDASH /\ (j = Len(t) \/ t[j + 1] # CH_EMDASH)
            THEN <<CH_EMDASH, CH_EMDASH>> ELSE <<t[j]>>])

\* for en, cn in REPLACEMENTS.items(): result = result.replace(en, cn)
ReplaceBasic(t) ==
  [j \in 1..Len(t) |-> IF t[j] \in DOMAIN REPLACEMENTS THEN REPLACEMENTS[t[j]] ELSE t[j]]

\* re.sub(r"([\u4e00-\u9fff]),", r"\1，", t)
CommaAfterChinese(t) ==
  [j \in 1..Len(t) |->
     IF t[j] = CH_COMMA /\ j > 1 /\ IsCJK(t[j - 1]) THEN CH_COMMA_F ELSE t[j]]

\* re.sub(r",([\u4e00-\u9fff])", r"，\1", t)
CommaBeforeChinese(t) ==
  [j \in 1..Len(t) |->
     IF t[j] = CH_COMMA /\ j < Len(t) /\ IsCJK(t[j + 1]) THEN CH_COMMA_F ELSE t[j]]

\* re.sub(r"([\u4e00-\u9fff])\.(\s|$)", r"\1。\2", t)
StopAfterChinese(t) ==
  [j \in 1..Len(t) |->
     IF t[j] = CH_DOT /\ j > 1 /\ IsCJK(t[j - 1])
        /\ (j = Len(t) \/ IsSpace(t[j + 1]))
     THEN CH_JU ELSE t[j]]

\* the quote characters of `chars` become left and right quotes in turn;
\* quote_count quotes were met before t
RECURSIVE PairQuotes(_, _, _, _, _)
PairQuotes(t, chars, left, right, quote_count) ==
  IF t = <<>> THEN <<>>
  ELSE IF Head(t) \in chars
       THEN <<IF quote_count % 2 = 0 THEN left ELSE right>>
            \o PairQuotes(Tail(t), chars, left, right, quote_count + 1)
       ELSE <<Head(t)>> \o PairQuotes(Tail(t), chars, left, right, quote_count)

fix_text(text) ==
  IF text = <<>> THEN text
  ELSE LET r1 == CollapseRuns(CollapseRuns(text, CH_DOT, <<CH_ELLIPSIS, CH_ELLIPSIS>>),
                              CH_JU, <<CH_ELLIPSIS, CH_ELLIPSIS>>)
           r2 == DoubleLastDash(CollapseRuns(r1, CH_HYPHEN, <<CH_EMDASH, CH_EMDASH>>))
           r3 == IF has_chinese(r2) THEN ReplaceBasic(r2) ELSE r2
           r4 == CommaBeforeChinese(CommaAfterChinese(r3))
           r5 == StopAfterChinese(r4)
           r6 == PairQuotes(r5, double_quote_chars, LEFT_DOUBLE_QUOTE,
                            RIGHT_DOUBLE_QUOTE, 0)
       IN  PairQuotes(r6, single_quote_chars, LEFT_SINGLE_QUOTE,
                      RIGHT_SINGLE_QUOTE, 0)

\* the fixed text goes to the first run, the other runs are emptied
process_paragraph(para) ==
  LET full_text == ParaText(para)
      fixed_text == fix_text(full_text)
  IN  IF Strip(full_text) = <<>> \/ fixed_text = full_text \/ para.runs = <<>>
      THEN para
      ELSE [ para EXCEPT !.runs =
               [j \in 1..Len(para.runs) |->
                  [para.runs[j] EXCEPT !.text = IF j = 1 THEN fixed_text ELSE <<>>]] ]

\* the paragraphs of the body, then those of the cells of its tables
process_document(blocks) ==
  [ j \in 1..Len(blocks) |->
      IF IsParagraph(blocks[j]) THEN process_paragraph(blocks[j])
      ELSE [ blocks[j] EXCEPT !.rows =
               [ r \in 1..Len(blocks[j].rows) |->
                   [ blocks[j].rows[r] EXCEPT !.cells =
                       [ c \in 1..Len(blocks[j].rows[r].cells) |->
                           [ blocks[j].rows[r].cells[c] EXCEPT !.paras =
                               [ k \in 1..Len(blocks[j].rows[r].cells[c].paras) |->
                                   process_paragraph(blocks[j].rows[r].cells[c].paras[k]) ] ] ] ] ] ] ]

----------------------------------------------------------------------------
(* One iteration of the paragraph loop on freely drawn inputs *)

\* the paragraph texts the inputs are drawn from
ParaPool ==
  { TxtNotice, TxtSplit2, TxtDate, TxtH1, TxtLead, TxtOrg, TxtLong, TxtBody,
    TxtTblTitle, TxtUnit, TxtTwoSent, TxtRecipient, TxtH3, TxtH4, TxtAttach,
    TxtClosing, TxtPadded, TxtBlank, TxtSpace, TxtH1Org, TxtLeadStop }

\* the texts of the other paragraphs of the document
SnapPool == {TxtDate, TxtBody}

PresetNames == DOMAIN PRESETS

\* the presets of the loop: the built-in ones and custom settings with the
\* bold-first-sentence flag
ParaPresets == PresetNames \cup {"custom_bold"}

\* [p.text.strip() for p in doc.paragraphs if p.text.strip()]
StrippedTexts(a) ==
  LET NotBlank(t) == Strip(t) # <<>>
      kept == SelectSeq(a, NotBlank)
  IN  [j \in 1..Len(kept) |-> Strip(kept[j])]

\* A document of the paragraphs with texts a with `lead` empty paragraphs
\* in front of them and `tail` empty paragraphs behind; the iteration is
\* the one of the at-th of them. `last` tells that no paragraph with text
\* follows it in the document,
\* `following` holds the texts of the paragraphs with text that follow it.
ParaInput(p, a, at, lead, tail, al, two_runs) ==
  [ preset |-> p, all_texts |-> StrippedTexts(a), text |-> a[at],
    index |-> lead + at - 1, total |-> lead + Len(a) + tail,
    alignment |-> al, two_runs |-> two_runs,
    last |-> \A j \in (at + 1)..Len(a) : Strip(a[j]) = <<>>,
    following |-> StrippedTexts(SubSeq(a, at + 1, Len(a))) ]

NoPara == [role |-> "none", para |-> NewParagraph(<<>>)]

ParaInit ==
  /\ \E n \in 1..MaxSnap, text \in ParaPool :
       \E at \in 1..n :
         \E others \in [(1..n) \ {at} -> SnapPool \cup {text}] :
           \E p \in ParaPresets,
              lead \in {0, MaxLead - 1, MaxLead, 2 * MaxLead},
              tail \in {0, MaxTail - 1, MaxTail, 4 * MaxTail - 1},
              al \in {"left", "center"}, two_runs \in BOOLEAN :
             p_in = ParaInput(p, [j \in 1..n |-> IF j = at THEN text ELSE others[j]],
                              at, lead, tail, al, two_runs)
  /\ p_out = NoPara
  /\ p_pc = "classify"

\* detect_para_type called on the inputs of the iteration
ParaClassify ==
  /\ p_pc = "classify"
  /\ p_out' = [role |-> detect_para_type(p_in.text, p_in.index, p_in.total,
                                         p_in.alignment, p_in.all_texts),
               para |-> NoPara.para]
  /\ p_pc' = "classified"
  /\ UNCHANGED p_in

\* a second call of detect_para_type with the inputs of the first one; its
\* result is kept next to the first result
ParaReclassify ==
  /\ p_pc = "classified"
  /\ p_out' = [ p_out EXCEPT !.para.role =
                  detect_para_type(p_in.text, p_in.index, p_in.total,
                                   p_in.alignment, p_in.all_texts) ]
  /\ p_pc' = "reclassified"
  /\ UNCHANGED p_in

ParaStep ==
  /\ p_pc = "classify"
  /\ LET styled == StyleOne(RawParagraphRuns(p_in.text, p_in.alignment, p_in.two_runs),
                            p_in.index, p_in.total, p_in.all_texts,
                            PresetOf(p_in.preset))
     IN  p_out' = [role |-> styled.role, para |-> styled]
  /\ p_pc' = "done"
  /\ UNCHANGED p_in

----------------------------------------------------------------------------
(* format_document, stage by stage, run twice: on an input document and    *)
(* then on the file the first run saved                                     *)

\* rows of the input tables
TblA == RawTable(<< <<TxtXuhao, TxtXiangmu, TxtJine>>,
                    <<TxtOne, TxtHeji, TxtNumeric>> >>)
TblB == RawTable(<< <<TxtJia, TxtYi>>, <<TxtNumericBs, TxtNumeric>> >>)

\* the blocks input documents are made of
BlockPool ==
  { RawParagraph(t, "left") :
      t \in {TxtNotice, TxtDate, TxtSplit2, TxtNested, TxtTblTitle,
             TxtTblTitleBs, TxtBlank} }
  \cup {TblA, TblB}

RawMargins == [top |-> 25, bottom |-> 25, left |-> 32, right |-> 32]

Init ==
  /\ preset \in PresetNames
  /\ \E n \in 1..MaxBlocks : doc \in [1..n -> BlockPool]
  /\ footers = RawFooters
  /\ margins = RawMargins
  /\ pc = "split"
  /\ run = 1
  /\ input = doc
  /\ saved = <<>>
  /\ p_in = [preset |-> "official", all_texts |-> <<>>, text |-> <<>>,
             index |-> 0, total |-> 0, alignment |-> "none",
             two_runs |-> FALSE, last |-> FALSE]
  /\ p_out = NoPara
  /\ p_pc = "off"
  /\ n_in = [weights |-> <<>>, min_pct |-> 0, max_pct |-> 0]
  /\ n_out = [pcts |-> <<>>, grid |-> <<>>]
  /\ n_pc = "off"

\* for para in list(doc.paragraphs): _split_heading_by_punct(para)
SplitHeadings ==
  /\ pc = "split"
  /\ doc' = SplitAll(doc)
  /\ pc' = "style"
  /\ UNCHANGED <<preset, footers, margins, run, input, saved>>
  /\ UNCHANGED <<paraVars, normVars>>

\* the page margins and the paragraph loop
FormatParagraphs ==
  /\ pc = "style"
  /\ "page" \in DOMAIN PresetOf(preset)
  /\ margins' = PresetOf(preset).page
  /\ doc' = StyleAll(doc, PresetOf(preset))
  /\ pc' = "tables"
  /\ UNCHANGED <<preset, footers, run, input, saved>>
  /\ UNCHANGED <<paraVars, normVars>>

FormatTables ==
  /\ pc = "tables"
  /\ doc' = LayoutTables(doc, PresetOf(preset))
  /\ pc' = "footer"
  /\ UNCHANGED <<preset, footers, margins, run, input, saved>>
  /\ UNCHANGED <<paraVars, normVars>>

\* if preset.get('page_number', True): add_page_number(...)
AddPageNumber ==
  /\ pc = "footer"
  /\ footers' = IF Get(PresetOf(preset), "page_number", TRUE)
                THEN add_page_number(footers,
                                     Get(PresetOf(preset), "page_number_font", "SongTi"))
                ELSE footers
  /\ pc' = "save"
  /\ UNCHANGED <<preset, doc, margins, run, input, saved>>
  /\ UNCHANGED <<paraVars, normVars>>

\* doc.save(output_path)
Save ==
  /\ pc = "save"
  /\ saved' = Append(saved, [doc |-> doc, footers |-> footers, margins |-> margins])
  /\ pc' = "done"
  /\ UNCHANGED <<preset, doc, footers, margins, run, input>>
  /\ UNCHANGED <<paraVars, normVars>>

\* the role noted for a paragraph belongs to one run
ForgetRoles(blocks) ==
  [j \in 1..Len(blocks) |->
     IF IsParagraph(blocks[j]) THEN [blocks[j] EXCEPT !.role = "none"] ELSE blocks[j]]

\* format_document called again, on the file just saved
Rerun ==
  /\ pc = "done"
  /\ run = 1
  /\ run' = 2
  /\ doc' = ForgetRoles(saved[1].doc)
  /\ footers' = saved[1].footers
  /\ margins' = saved[1].margins
  /\ pc' = "split"
  /\ UNCHANGED <<preset, input, saved>>
  /\ UNCHANGED <<paraVars, normVars>>

Next ==
  \/ SplitHeadings
  \/ FormatParagraphs
  \/ FormatTables
  \/ AddPageNumber
  \/ Save
  \/ Rerun

Spec == Init /\ [][Next]_vars

----------------------------------------------------------------------------
(* format_document on documents of headings with and without split points *)

\* paragraphs with a heading marker and text after the first mark, with a
\* marker and nothing or white space after the mark, with a marker and no
\* mark, without a marker, with white space around
SplitPool ==
  { RawParagraph(t, "left") :
      t \in {TxtNested, TxtSplit2, TxtStopFirst, TxtNoMarker, TxtH1, TxtPadded,
             TxtTailSpace} }

InitSplit ==
  /\ preset \in PresetNames
  /\ \E n \in 1..MaxBlocks : doc \in [1..n -> SplitPool]
  /\ footers = RawFooters
  /\ margins = RawMargins
  /\ pc = "split"
  /\ run = 1
  /\ input = doc
  /\ saved = <<>>
  /\ p_in = [preset |-> "official", all_texts |-> <<>>, text |-> <<>>,
             index |-> 0, total |-> 0, alignment |-> "none",
             two_runs |-> FALSE, last |-> FALSE]
  /\ p_out = NoPara
  /\ p_pc = "off"
  /\ n_in = [weights |-> <<>>, min_pct |-> 0, max_pct |-> 0]
  /\ n_out = [pcts |-> <<>>, grid |-> <<>>]
  /\ n_pc = "off"

SpecSplit == InitSplit /\ [][Next]_vars

----------------------------------------------------------------------------
(* format_document on documents with notes around a table *)

\* the blocks of these documents: a table, a unit note as written in
\* documents, a text the unit pattern accepts as it is spelt, a body
\* paragraph and an empty paragraph
CaptionPool ==
  { RawParagraph(t, "left") : t \in {TxtUnit, TxtUnitBs, TxtBody, TxtBlank} }
  \cup {TblA}

InitCaptions ==
  /\ preset \in PresetNames
  /\ \E n \in 1..MaxBlocks : doc \in [1..n -> CaptionPool]
  /\ footers = RawFooters
  /\ margins = RawMargins
  /\ pc = "split"
  /\ run = 1
  /\ input = doc
  /\ saved = <<>>
  /\ p_in = [preset |-> "official", all_texts |-> <<>>, text |-> <<>>,
             index |-> 0, total |-> 0, alignment |-> "none",
             two_runs |-> FALSE, last |-> FALSE]
  /\ p_out = NoPara
  /\ p_pc = "off"
  /\ n_in = [weights |-> <<>>, min_pct |-> 0, max_pct |-> 0]
  /\ n_out = [pcts |-> <<>>, grid |-> <<>>]
  /\ n_pc = "off"

SpecCaptions == InitCaptions /\ [][Next]_vars

----------------------------------------------------------------------------
(* The command line: python formatter.py input output --preset name *)

\* preset names given on the command line
CliPresets == {"official", "academic", "legal", "custom", "nosuch"}

\* format_document is entered with the preset name; nothing is loaded yet
InitCli ==
  /\ preset \in CliPresets
  /\ \E n \in 1..MaxBlocks : input \in [1..n -> CaptionPool]
  /\ doc = <<>>
  /\ footers = RawFooters
  /\ margins = RawMargins
  /\ pc = "cli"
  /\ run = 1
  /\ saved = <<>>
  /\ p_in = [preset |-> "official", all_texts |-> <<>>, text |-> <<>>,
             index |-> 0, total |-> 0, alignment |-> "none",
             two_runs |-> FALSE, last |-> FALSE]
  /\ p_out = NoPara
  /\ p_pc = "off"
  /\ n_in = [weights |-> <<>>, min_pct |-> 0, max_pct |-> 0]
  /\ n_out = [pcts |-> <<>>, grid |-> <<>>]
  /\ n_pc = "off"

\* SelectPreset with an unknown name falling back to the official preset
SelectPreset_unknown_is_official ==
  /\ pc = "cli"
  /\ IF preset = "custom"
     THEN preset' \in {"official"} \cup DOMAIN CUSTOM_SETTINGS
     ELSE IF preset \notin DOMAIN PRESETS THEN preset' = "official"
     ELSE preset' = preset
  /\ pc' = "load"
  /\ UNCHANGED <<doc, footers, margins, run, input, saved>>
  /\ UNCHANGED <<paraVars, normVars>>

\* the preset selection: custom settings when the file can be read, else
\* the official preset; sys.exit(1) for a name that is no preset
SelectPreset ==
  /\ pc = "cli"
  /\ IF preset = "custom"
     THEN preset' \in {"official"} \cup DOMAIN CUSTOM_SETTINGS /\ pc' = "load"
     ELSE IF preset \notin DOMAIN PRESETS THEN preset' = preset /\ pc' = "exit1"
     ELSE preset' = preset /\ pc' = "load"
  /\ UNCHANGED <<doc, footers, margins, run, input, saved>>
  /\ UNCHANGED <<paraVars, normVars>>

\* doc = Document(input_path)
LoadDocument ==
  /\ pc = "load"
  /\ doc' = input
  /\ pc' = "split"
  /\ UNCHANGED <<preset, footers, margins, run, input, saved>>
  /\ UNCHANGED <<paraVars, normVars>>

\* page = preset['page'] raises KeyError: the run ends with a traceback
RaiseKeyError ==
  /\ pc = "style"
  /\ "page" \notin DOMAIN PresetOf(preset)
  /\ pc' = "error"
  /\ UNCHANGED <<preset, doc, footers, margins, run, input, saved>>
  /\ UNCHANGED <<paraVars, normVars>>

NextCli ==
  \/ SelectPreset
  \/ LoadDocument
  \/ RaiseKeyError
  \/ SplitHeadings
  \/ FormatParagraphs
  \/ FormatTables
  \/ AddPageNumber
  \/ Save
  \/ Rerun

SpecCli == InitCli /\ [][NextCli]_vars

----------------------------------------------------------------------------
(* add_page_number invoked again and again on the footers of one section *)

\* the paragraphs of a footer as found: none, an empty one, an old centred
\* page number, a page-number line with its field, two paragraphs
FooterParas ==
  { <<>>,
    <<[alignment |-> "none", runs |-> <<>>]>>,
    RawFooters.odd,
    <<[alignment |-> "center",
       runs |-> << FooterRun(<<>>, "begin", "KaiTi_GB2312"),
                   FooterRun(<<>>, "PAGE", "KaiTi_GB2312"),
                   FooterRun(<<>>, "end", "KaiTi_GB2312") >>]>>,
    RawFooters.odd \o <<[alignment |-> "left",
                         runs |-> <<[run |-> RawRun(<<49>>), fld |-> "none"]>>]>> }

\* values of the font_name parameter
FooterFonts == {"SongTi", "KaiTi_GB2312"}

InitFooter ==
  /\ footers \in [odd_even : BOOLEAN, distance : {7, 15},
                   odd : FooterParas, even : FooterParas]
  /\ preset = "official"
  /\ doc = <<>>
  /\ margins = RawMargins
  /\ pc = "footers"
  /\ run = 1
  /\ input = <<>>
  /\ saved = <<>>
  /\ p_in = [preset |-> "official", all_texts |-> <<>>, text |-> <<>>,
             index |-> 0, total |-> 0, alignment |-> "none",
             two_runs |-> FALSE, last |-> FALSE]
  /\ p_out = NoPara
  /\ p_pc = "off"
  /\ n_in = [weights |-> <<>>, min_pct |-> 0, max_pct |-> 0]
  /\ n_out = [pcts |-> <<>>, grid |-> <<>>]
  /\ n_pc = "off"

\* the run-th invocation add_page_number(doc, font_name)
InvokeAddPageNumber ==
  /\ pc = "footers"
  /\ run <= MaxCalls
  /\ \E font_name \in FooterFonts : footers' = add_page_number(footers, font_name)
  /\ run' = run + 1
  /\ UNCHANGED <<preset, doc, margins, pc, input, saved>>
  /\ UNCHANGED <<paraVars, normVars>>

NextFooter == InvokeAddPageNumber

SpecFooter == InitFooter /\ [][NextFooter]_vars

----------------------------------------------------------------------------
(* The paragraph pass and the table pass of format_document, applied to    *)
(* one input in the order of the source and in the other order             *)

InitOrder ==
  /\ preset \in PresetNames
  /\ \E n \in 1..MaxBlocks : doc \in [1..n -> BlockPool]
  /\ footers = RawFooters
  /\ margins = RawMargins
  /\ pc = "order"
  /\ run = 1
  /\ input = doc
  /\ saved = <<>>
  /\ p_in = [preset |-> "official", all_texts |-> <<>>, text |-> <<>>,
             index |-> 0, total |-> 0, alignment |-> "none",
             two_runs |-> FALSE, last |-> FALSE]
  /\ p_out = NoPara
  /\ p_pc = "off"
  /\ n_in = [weights |-> <<>>, min_pct |-> 0, max_pct |-> 0]
  /\ n_out = [pcts |-> <<>>, grid |-> <<>>]
  /\ n_pc = "off"

\* split, paragraph loop, table pass: the order of format_document
StyleThenTables ==
  /\ pc = "order"
  /\ doc' = LayoutTables(StyleAll(SplitAll(input), PRESETS[preset]), PRESETS[preset])
  /\ saved' = Append(saved, [doc |-> doc', footers |-> footers, margins |-> margins])
  /\ pc' = "swap"
  /\ UNCHANGED <<preset, footers, margins, run, input>>
  /\ UNCHANGED <<paraVars, normVars>>

\* split, table pass, paragraph loop
TablesThenStyle ==
  /\ pc = "swap"
  /\ doc' = StyleAll(LayoutTables(SplitAll(input), PRESETS[preset]), PRESETS[preset])
  /\ saved' = Append(saved, [doc |-> doc', footers |-> footers, margins |-> margins])
  /\ pc' = "compared"
  /\ UNCHANGED <<preset, footers, margins, run, input>>
  /\ UNCHANGED <<paraVars, normVars>>

NextOrder == StyleThenTables \/ TablesThenStyle

SpecOrder == InitOrder /\ [][NextOrder]_vars

----------------------------------------------------------------------------
(* punctuation.process_document and format_document, applied to one input  *)
(* in both orders                                                           *)

\* the blocks of the input documents: a heading with an ASCII full stop, a
\* lead-in paragraph with an ASCII comma, a text with quotes, hyphens and
\* dots, a text the normalizer leaves alone, an empty paragraph, a table
PunctPool ==
  { RawParagraph(t, "left") :
      t \in {TxtDotSplit, TxtLeadComma, TxtQuoted, TxtBody, TxtBlank} }
  \cup {TblA}

\* the document passes of format_document: split, paragraph loop, table pass
FormatBlocks(blocks, p) == LayoutTables(StyleAll(SplitAll(blocks), p), p)

InitPunct ==
  /\ preset \in PresetNames
  /\ \E n \in 1..MaxBlocks : doc \in [1..n -> PunctPool]
  /\ footers = RawFooters
  /\ margins = RawMargins
  /\ pc = "punct_first"
  /\ run = 1
  /\ input = doc
  /\ saved = <<>>
  /\ p_in = [preset |-> "official", all_texts |-> <<>>, text |-> <<>>,
             index |-> 0, total |-> 0, alignment |-> "none",
             two_runs |-> FALSE, last |-> FALSE]
  /\ p_out = NoPara
  /\ p_pc = "off"
  /\ n_in = [weights |-> <<>>, min_pct |-> 0, max_pct |-> 0]
  /\ n_out = [pcts |-> <<>>, grid |-> <<>>]
  /\ n_pc = "off"

\* punctuation.py input mid; formatter.py mid output
PunctThenFormat ==
  /\ pc = "punct_first"
  /\ doc' = FormatBlocks(ForgetRoles(process_document(input)), PRESETS[preset])
  /\ saved' = Append(saved, [doc |-> doc', footers |-> footers, margins |-> margins])
  /\ pc' = "format_first"
  /\ UNCHANGED <<preset, footers, margins, run, input>>
  /\ UNCHANGED <<paraVars, normVars>>

\* formatter.py input mid; punctuation.py mid output
FormatThenPunct ==
  /\ pc = "format_first"
  /\ doc' = process_document(FormatBlocks(input, PRESETS[preset]))
  /\ saved' = Append(saved, [doc |-> doc', footers |-> footers, margins |-> margins])
  /\ pc' = "compared"
  /\ UNCHANGED <<preset, footers, margins, run, input>>
  /\ UNCHANGED <<paraVars, normVars>>

NextPunct == PunctThenFormat \/ FormatThenPunct

SpecPunct == InitPunct /\ [][NextPunct]_vars

----------------------------------------------------------------------------
(* The specification of one loop iteration *)

InitPara ==
  /\ ParaInit
  /\ preset = "official"
  /\ doc = <<>>
  /\ footers = RawFooters
  /\ margins = RawMargins
  /\ pc = "off"
  /\ run = 1
  /\ input = <<>>
  /\ saved = <<>>
  /\ n_in = [weights |-> <<>>, min_pct |-> 0, max_pct |-> 0]
  /\ n_out = [pcts |-> <<>>, grid |-> <<>>]
  /\ n_pc = "off"

ClassifyAndStyle == ParaStep /\ UNCHANGED <<docVars, normVars>>

Classify == ParaClassify /\ UNCHANGED <<docVars, normVars>>

Reclassify == ParaReclassify /\ UNCHANGED <<docVars, normVars>>

NextPara == ClassifyAndStyle \/ Classify \/ Reclassify

SpecPara == InitPara /\ [][NextPara]_vars

----------------------------------------------------------------------------
(* The specification of the column widths *)

\* [col_min_pct, col_max_pct]: the defaults and two bands a preset's
\* table node may set
Bands == {<<8, 45>>, <<10, 40>>, <<20, 60>>}

\* weights of 1..MaxCols columns, each at least 1.0 (2 half units) as
\* _set_table_col_widths_by_content builds them, with a band [min%, max%]
InitNorm ==
  /\ \E k \in 1..MaxCols :
       \E w \in [1..k -> 2..MaxWeight], b \in Bands :
         n_in = [weights |-> w, min_pct |-> b[1], max_pct |-> b[2]]
  /\ n_out = [pcts |-> <<>>, grid |-> <<>>]
  /\ n_pc = "normalize"
  /\ preset = "official"
  /\ doc = <<>>
  /\ footers = RawFooters
  /\ margins = RawMargins
  /\ pc = "off"
  /\ run = 1
  /\ input = <<>>
  /\ saved = <<>>
  /\ p_in = [preset |-> "official", all_texts |-> <<>>, text |-> <<>>,
             index |-> 0, total |-> 0, alignment |-> "none",
             two_runs |-> FALSE, last |-> FALSE]
  /\ p_out = NoPara
  /\ p_pc = "off"

\* pcts = _normalize_pcts(max_weights, min_pct, max_pct)
Normalize ==
  /\ n_pc = "normalize"
  /\ n_out' = [n_out EXCEPT !.pcts = _normalize_pcts(n_in.weights, n_in.min_pct, n_in.max_pct)]
  /\ n_pc' = "grid"
  /\ UNCHANGED n_in
  /\ UNCHANGED <<docVars, paraVars>>

\* for pct in pcts: grid_col.set(qn('w:w'), str(int(pct * 50)))
SetGrid ==
  /\ n_pc = "grid"
  /\ n_out' = [n_out EXCEPT !.grid = [c \in 1..Len(n_out.pcts) |-> Pct50(n_out.pcts[c])]]
  /\ n_pc' = "done"
  /\ UNCHANGED n_in
  /\ UNCHANGED <<docVars, paraVars>>

NextNorm == Normalize \/ SetGrid

SpecNorm == InitNorm /\ [][NextNorm]_vars

----------------------------------------------------------------------------
(* format_document on documents of one table with totals in its cells *)

\* header rows: with and without a serial-number column, with a total
HeaderRows ==
  { <<RawCell(TxtXuhao), RawCell(TxtXiangmu)>>,
    <<RawCell(TxtXiangmu), RawCell(TxtHeji)>> }

\* cells of the other rows: a short total, a long text with a total in it,
\* a total spread over two paragraphs of the cell, a long text
CellPool ==
  { RawCell(TxtHeji), RawCell(TxtZongjiLong), RawCellParas(<<TxtHeTail, TxtJiHead>>),
    RawCell(TxtLong) }

\* a table of the given rows of cells
TableOf(rows) ==
  [ RawTable(<<>>) EXCEPT !.rows =
      [r \in 1..Len(rows) |-> [cells |-> rows[r], height |-> Unset,
                               height_rule |-> "none"]] ]

InitCells ==
  /\ preset \in PresetNames
  /\ \E head \in HeaderRows, n \in 1..MaxRows :
       \E body \in [1..n -> [1..Len(head) -> CellPool]] :
         doc = <<TableOf(<<head>> \o body)>>
  /\ footers = RawFooters
  /\ margins = RawMargins
  /\ pc = "split"
  /\ run = 1
  /\ input = doc
  /\ saved = <<>>
  /\ p_in = [preset |-> "official", all_texts |-> <<>>, text |-> <<>>,
             index |-> 0, total |-> 0, alignment |-> "none",
             two_runs |-> FALSE, last |-> FALSE]
  /\ p_out = NoPara
  /\ p_pc = "off"
  /\ n_in = [weights |-> <<>>, min_pct |-> 0, max_pct |-> 0]
  /\ n_out = [pcts |-> <<>>, grid |-> <<>>]
  /\ n_pc = "off"

\* one run of format_document
NextCells ==
  \/ SplitHeadings
  \/ FormatParagraphs
  \/ FormatTables
  \/ AddPageNumber
  \/ Save

SpecCells == InitCells /\ [][NextCells]_vars

----------------------------------------------------------------------------
(* One iteration of the paragraph loop in documents that repeat a text *)

\* a short text without organisation suffix, a date, a sentence
DupPool == {TxtJia, TxtDate, TxtBody}

InitDup ==
  /\ \E n \in 1..MaxBlocks :
       \E a \in [1..n -> DupPool], at \in 1..n,
          lead \in {0, MaxLead}, tail \in {0, MaxTail},
          al \in {"left", "center"} :
         p_in = ParaInput("official", a, at, lead, tail, al, FALSE)
  /\ p_out = NoPara
  /\ p_pc = "classify"
  /\ preset = "official"
  /\ doc = <<>>
  /\ footers = RawFooters
  /\ margins = RawMargins
  /\ pc = "off"
  /\ run = 1
  /\ input = <<>>
  /\ saved = <<>>
  /\ n_in = [weights |-> <<>>, min_pct |-> 0, max_pct |-> 0]
  /\ n_out = [pcts |-> <<>>, grid |-> <<>>]
  /\ n_pc = "off"

SpecDup == InitDup /\ [][NextPara]_vars

----------------------------------------------------------------------------
(* One iteration of the paragraph loop on a date in each of its spellings *)

\* one text for each of the five date patterns
DatePool == {TxtDate, TxtDateDot, TxtDateSlash, TxtDateDash, TxtDateCn}

InitDates ==
  /\ \E n \in 1..MaxSnap, text \in DatePool :
       \E at \in 1..n :
         \E others \in [(1..n) \ {at} -> SnapPool] :
           \E p \in PresetNames,
              lead \in {0, MaxLead}, tail \in {0, MaxTail},
              al \in {"left", "center"} :
             p_in = ParaInput(p, [j \in 1..n |-> IF j = at THEN text ELSE others[j]],
                              at, lead, tail, al, FALSE)
  /\ p_out = NoPara
  /\ p_pc = "classify"
  /\ preset = "official"
  /\ doc = <<>>
  /\ footers = RawFooters
  /\ margins = RawMargins
  /\ pc = "off"
  /\ run = 1
  /\ input = <<>>
  /\ saved = <<>>
  /\ n_in = [weights |-> <<>>, min_pct |-> 0, max_pct |-> 0]
  /\ n_out = [pcts |-> <<>>, grid |-> <<>>]
  /\ n_pc = "off"

SpecDates == InitDates /\ [][NextPara]_vars

----------------------------------------------------------------------------
(* The paragraph loop of format_document, one iteration at a time *)
(*                                                                          *)
(* In this specification p_in holds the locals of format_document taken     *)
(* before the loop (total_paras, all_texts) and the position of the loop,   *)
(* and p_out keeps the document as it was when the locals were taken.       *)

\* the keys of the dict stats
STAT_KEYS ==
  { "title", "recipient", "heading1", "heading2", "heading3", "heading4",
    "body", "signature", "date", "attachment", "closing" }

\* a short text aligned left and centred, a heading with a date after its
\* mark, a lead-in sentence, an organisation, an empty paragraph, a table
LoopPool ==
  { RawParagraph(t, "left") : t \in {TxtJia, TxtHeadDate, TxtLead, TxtOrg, TxtBlank} }
  \cup {RawParagraph(TxtJia, "center"), TblA}

InitLoop ==
  /\ preset \in ParaPresets \cup {"custom_no_signature"}
  /\ \E n \in 1..MaxBlocks : doc \in [1..n -> LoopPool]
  /\ footers = RawFooters
  /\ margins = RawMargins
  /\ pc = "split"
  /\ run = 1
  /\ input = doc
  /\ saved = <<>>
  /\ p_in = [ preset |-> preset, all_texts |-> <<>>, total |-> 0, block |-> 0,
               stats |-> EmptyDict ]
  /\ p_out = [snapshot |-> <<>>, styled |-> <<>>]
  /\ p_pc = "off"
  /\ n_in = [weights |-> <<>>, min_pct |-> 0, max_pct |-> 0]
  /\ n_out = [pcts |-> <<>>, grid |-> <<>>]
  /\ n_pc = "off"

\* TakeSnapshot with total_paras and all_texts taken before the headings
\* were split
TakeSnapshot_before_split ==
  /\ pc = "style"
  /\ p_pc = "off"
  /\ "page" \in DOMAIN PresetOf(preset)
  /\ p_in' = [ preset |-> preset, all_texts |-> AllTexts(input),
               total |-> Len(Paragraphs(input)), block |-> 1,
               stats |-> [r \in STAT_KEYS |-> 0] ]
  /\ p_out' = [snapshot |-> doc, styled |-> <<>>]
  /\ margins' = PresetOf(preset).page
  /\ p_pc' = "loop"
  /\ UNCHANGED <<preset, doc, footers, pc, run, input, saved, normVars>>

\* total_paras = len(doc.paragraphs); all_texts = [...]; the page margins
TakeSnapshot ==
  /\ pc = "style"
  /\ p_pc = "off"
  /\ "page" \in DOMAIN PresetOf(preset)
  /\ p_in' = [ preset |-> preset, all_texts |-> AllTexts(doc),
               total |-> Len(Paragraphs(doc)), block |-> 1,
               stats |-> [r \in STAT_KEYS |-> 0] ]
  /\ p_out' = [snapshot |-> doc, styled |-> <<>>]
  /\ margins' = PresetOf(preset).page
  /\ p_pc' = "loop"
  /\ UNCHANGED <<preset, doc, footers, pc, run, input, saved, normVars>>

\* LoopStep without the `continue` for an empty paragraph
LoopStep_no_skip ==
  /\ p_pc = "loop"
  /\ p_in.block <= Len(doc)
  /\ LET para == doc[p_in.block]
         p == PresetOf(p_in.preset)
         para_type == IF IsParagraph(para)
                      THEN detect_para_type(ParaText(para), ParasBefore(doc, p_in.block - 1),
                                            p_in.total, para.alignment, p_in.all_texts)
                      ELSE "none"
         fmt_key == IF para_type \in DOMAIN p THEN para_type ELSE "body"
     IN  IF IsParagraph(para)
         THEN /\ doc' = [ doc EXCEPT ![p_in.block] =
                            [ format_paragraph(para, p[fmt_key], para_type, FirstLineBold(p))
                                EXCEPT !.role = para_type ] ]
              /\ p_in' = [ p_in EXCEPT !.block = @ + 1,
                                       !.stats = [para_type |-> Get(@, para_type, 0) + 1] @@ @ ]
              /\ p_out' = [p_out EXCEPT !.styled = Append(@, p_in.block)]
         ELSE /\ doc' = doc
              /\ p_in' = [p_in EXCEPT !.block = @ + 1]
              /\ p_out' = p_out
  /\ UNCHANGED <<preset, footers, margins, pc, run, input, saved, p_pc, normVars>>

\* one iteration of `for i, para in enumerate(doc.paragraphs)`; a table at
\* the position is passed over.  p_out.styled notes the positions of the
\* paragraphs given to format_paragraph, in the order of the calls.
LoopStep ==
  /\ p_pc = "loop"
  /\ p_in.block <= Len(doc)
  /\ LET para == doc[p_in.block]
         styled == StyleOne(para, ParasBefore(doc, p_in.block - 1), p_in.total,
                            p_in.all_texts, PresetOf(p_in.preset))
     IN  IF IsParagraph(para) /\ Strip(ParaText(para)) # <<>>
         THEN /\ doc' = [doc EXCEPT ![p_in.block] = styled]
              /\ p_in' = [ p_in EXCEPT !.block = @ + 1,
                                       !.stats = [@ EXCEPT ![styled.role] = @ + 1] ]
              /\ p_out' = [p_out EXCEPT !.styled = Append(@, p_in.block)]
         ELSE /\ doc' = doc
              /\ p_in' = [p_in EXCEPT !.block = @ + 1]
              /\ p_out' = p_out
  /\ UNCHANGED <<preset, footers, margins, pc, run, input, saved, p_pc, normVars>>

\* the loop is through
LoopEnd ==
  /\ p_pc = "loop"
  /\ p_in.block > Len(doc)
  /\ p_pc' = "done"
  /\ pc' = "tables"
  /\ UNCHANGED <<preset, doc, footers, margins, run, input, saved, p_in, p_out, normVars>>

NextLoop ==
  \/ SplitHeadings
  \/ TakeSnapshot
  \/ LoopStep
  \/ LoopEnd

SpecLoop == InitLoop /\ [][NextLoop]_vars

----------------------------------------------------------------------------
(* punctuation.py run on a document and again on the file it wrote *)

InitFix ==
  /\ preset = "official"
  /\ \E n \in 1..MaxBlocks : doc \in [1..n -> PunctPool]
  /\ footers = RawFooters
  /\ margins = RawMargins
  /\ pc = "punct"
  /\ run = 1
  /\ input = doc
  /\ saved = <<>>
  /\ p_in = [preset |-> "official", all_texts |-> <<>>, text |-> <<>>,
             index |-> 0, total |-> 0, alignment |-> "none",
             two_runs |-> FALSE, last |-> FALSE]
  /\ p_out = NoPara
  /\ p_pc = "off"
  /\ n_in = [weights |-> <<>>, min_pct |-> 0, max_pct |-> 0]
  /\ n_out = [pcts |-> <<>>, grid |-> <<>>]
  /\ n_pc = "off"

\* process_document(input_path, output_path), the input being the file of
\* the run before
RunPunctuation ==
  /\ pc = "punct"
  /\ run <= MaxCalls
  /\ doc' = process_document(doc)
  /\ saved' = Append(saved, [doc |-> doc', footers |-> footers, margins |-> margins])
  /\ run' = run + 1
  /\ UNCHANGED <<preset, footers, margins, pc, input>>
  /\ UNCHANGED <<paraVars, normVars>>

NextFix == RunPunctuation

SpecFix == InitFix /\ [][NextFix]_vars

----------------------------------------------------------------------------
(* Properties *)

\* the StyleSpec the paragraph loop picks for a role
FmtOf(p, role) == IF role \in DOMAIN p THEN p[role] ELSE p["body"]

\* the paragraph carries the alignment, size and first-line indent of fmt
HasStyle(para, fmt) ==
  /\ para.alignment = fmt.align
  /\ para.first_line_indent = fmt.indent
  /\ \A j \in 1..Len(para.runs) : para.runs[j].size = fmt.size

\* the iteration was the one of the notice at index 0, aligned left
C1_Case ==
  /\ p_pc = "done"
  /\ p_in.text = TxtNotice
  /\ p_in.index = 0
  /\ p_in.alignment = "left"

\* one of the three snapshot texts after the first occurrence of the
\* iteration's text is a date
C1_DateWithinThree ==
  LET a == p_in.all_texts
      at == CHOOSE j \in 1..Len(a) : a[j] = p_in.text /\ \A k \in 1..(j - 1) : a[k] # p_in.text
  IN  \E j \in 1..Len(a) : j > at /\ j <= at + 3 /\ date_patterns(a[j])

\* C1 as stated: the notice at index 0, originally aligned left, is classified
\* title for every total and every snapshot, and is styled as the title
C1_AlwaysTitle ==
  C1_Case =>
    /\ p_out.role = "title"
    /\ HasStyle(p_out.para, PresetOf(p_in.preset)["title"])

\* C1 amended: the notice at index 0, originally aligned left, is classified
\* title and carries the preset's title StyleSpec (centred, title size, no
\* first-line indent) unless the document has at most 10 paragraphs and one of
\* the three snapshot texts after it is a date; then it is classified
\* signature and carries the signature StyleSpec
C1_TitleUnlessDateFollows ==
  C1_Case =>
    IF p_in.total <= 10 /\ C1_DateWithinThree
    THEN /\ p_out.role = "signature"
         /\ HasStyle(p_out.para, PresetOf(p_in.preset)["signature"])
    ELSE /\ p_out.role = "title"
         /\ HasStyle(p_out.para, PresetOf(p_in.preset)["title"])
         /\ p_out.para.alignment = "center"
         /\ p_out.para.first_line_indent = 0

\* the notice, followed by another paragraph, was classified title
C1_Witness ==
  /\ C1_Case
  /\ Len(p_in.all_texts) > 1
  /\ p_out.role = "title"
  /\ p_out.para.alignment = "center"

\* the paragraphs of blocks whose text is t
ParasWithText(blocks, t) ==
  {j \in 1..Len(blocks) : IsParagraph(blocks[j]) /\ ParaText(blocks[j]) = t}

\* C2 as stated: after the heading splitter and the paragraph loop, an input
\* paragraph '（二）加强宣传教育，营造良好氛围。' has become the paragraph
\* '（二）加强宣传教育。' classified heading2, followed by the paragraph
\* '营造良好氛围。' classified body
C2_SplitInTwo ==
  (run = 1 /\ pc = "tables" /\ ParasWithText(input, TxtSplit2) # {}) =>
    \E k \in 1..(Len(doc) - 1) :
      /\ IsParagraph(doc[k]) /\ ParaText(doc[k]) = TxtSplit2Head
      /\ doc[k].role = "heading2"
      /\ IsParagraph(doc[k + 1]) /\ ParaText(doc[k + 1]) = TxtSplit2Tail
      /\ doc[k + 1].role = "body"

\* C2 amended: the heading splitter leaves the paragraph
\* '（二）加强宣传教育，营造良好氛围。' as it is (its only split point '。' ends
\* it, and '，' is no split point): the document holds as many such
\* paragraphs as the input, each untouched, and none with the text
\* '（二）加强宣传教育。' or '营造良好氛围。'; the paragraph is then classified
\* heading2
C2_LeftWholeHeading2 ==
  /\ (run = 1 /\ pc = "style") =>
       /\ Cardinality(ParasWithText(doc, TxtSplit2))
            = Cardinality(ParasWithText(input, TxtSplit2))
       /\ \A j \in ParasWithText(doc, TxtSplit2) : doc[j] = RawParagraph(TxtSplit2, "left")
       /\ ParasWithText(doc, TxtSplit2Head) = {}
       /\ ParasWithText(doc, TxtSplit2Tail) = {}
  /\ (run = 1 /\ pc = "tables") =>
       /\ Cardinality(ParasWithText(doc, TxtSplit2))
            = Cardinality(ParasWithText(input, TxtSplit2))
       /\ \A j \in ParasWithText(doc, TxtSplit2) : doc[j].role = "heading2"

\* the paragraph went through the splitter and the loop in a document of
\* several blocks
C2_Witness ==
  /\ run = 1
  /\ pc = "tables"
  /\ Len(input) > 1
  /\ \E j \in ParasWithText(doc, TxtSplit2) : doc[j].role = "heading2"

\* C3 as stated: format_document applied to the document it produced leaves
\* the blocks (their number, roles, paragraph and run attributes) and the
\* footers as the first run saved them
C3_SecondRunChangesNothing ==
  Len(saved) = 2 =>
    /\ saved[2].doc = saved[1].doc
    /\ saved[2].footers = saved[1].footers

\* the tables of blocks
TablesOf(blocks) == {j \in 1..Len(blocks) : IsTable(blocks[j])}

\* C4 as stated: _is_numeric_text accepts '1,234.50%', and after the table
\* pass every paragraph of a cell with that text below the header row and
\* outside the serial-number column is right-aligned
C4_NumericCellRight ==
  pc \in {"footer", "save", "done"} =>
    \A k \in TablesOf(doc) :
      \A r \in 2..Len(doc[k].rows) :
        \A c \in 1..Len(doc[k].rows[r].cells) :
          LET cell == doc[k].rows[r].cells[c]
          IN  (CellText(cell) = TxtNumeric /\ c # SerialCol(doc[k])) =>
                /\ _is_numeric_text(CellText(cell))
                /\ \A j \in 1..Len(cell.paras) : cell.paras[j].alignment = "right"

\* C5 as stated: when n * min <= 100 <= n * max for the n columns, every
\* percentage _normalize_pcts returns lies within [min, max]
C5_WithinBand ==
  LET n == Len(n_in.weights)
  IN  (n_pc \in {"grid", "done"} /\ n * n_in.min_pct <= 100 /\ 100 <= n * n_in.max_pct) =>
        \A c \in 1..n :
          /\ FracLeq(<<n_in.min_pct, 1>>, n_out.pcts[c])
          /\ FracLeq(n_out.pcts[c], <<n_in.max_pct, 1>>)

\* C6 as stated: the gridCol values written for the columns of a table, in
\* fiftieths of a percent, sum to 5000
C6_GridSums5000 ==
  n_pc = "done" => Sum(n_out.grid) = 5000

\* a caption the table pass detects
IsCaption(b) ==
  IsParagraph(b) /\ (_is_table_title(ParaText(b)) \/ _is_table_unit(ParaText(b)))

\* number of blank paragraphs in a row right before / right after position j
RECURSIVE BlanksBefore(_, _)
BlanksBefore(blocks, j) ==
  IF j > 1 /\ IsBlank(blocks[j - 1]) THEN 1 + BlanksBefore(blocks, j - 1) ELSE 0
RECURSIVE BlanksAfter(_, _)
BlanksAfter(blocks, j) ==
  IF j < Len(blocks) /\ IsBlank(blocks[j + 1]) THEN 1 + BlanksAfter(blocks, j + 1) ELSE 0

\* C7 as stated: after the table pass, wherever a non-blank block stands
\* before (after) a table, exactly one blank paragraph separates the table,
\* or the caption next to it, from the nearest such block
C7_OneBlankAround ==
  pc \in {"footer", "save", "done"} =>
    \A k \in TablesOf(doc) :
      LET first == IF k > 1 /\ IsCaption(doc[k - 1]) THEN k - 1 ELSE k
          last  == IF k < Len(doc) /\ IsParagraph(doc[k + 1])
                      /\ _is_table_unit(ParaText(doc[k + 1])) THEN k + 1 ELSE k
      IN  /\ (first - BlanksBefore(doc, first) > 1) => BlanksBefore(doc, first) = 1
          /\ (last + BlanksAfter(doc, last) < Len(doc)) => BlanksAfter(doc, last) = 1

\* C8 as stated: the table pass run on the output of a first run inserts no
\* paragraph: it leaves the number of blocks as it found it
C8_RerunInsertsNothing ==
  [][(pc = "tables" /\ run = 2) => Len(doc') = Len(doc)]_vars

\* the StyleSpec the finished iteration applied
C9_Fmt == FmtOf(PresetOf(p_in.preset), p_out.role)

C9_Styled == p_pc = "done" /\ p_out.role # "none"

\* C9 as stated: the line spacing is exact at the StyleSpec's value when the
\* StyleSpec gives one, and 1.5 lines when its line_spacing entry is null or
\* missing
C9_ExactIffSpecified ==
  C9_Styled =>
    IF "line_spacing" \in DOMAIN C9_Fmt /\ C9_Fmt.line_spacing # None
    THEN p_out.para.line_rule = "exact" /\ p_out.para.line = C9_Fmt.line_spacing * 20
    ELSE p_out.para.line_rule = "auto" /\ p_out.para.line = 360

\* C9 amended: the line spacing is exact at the StyleSpec's value when the
\* StyleSpec gives one, exact at the default of 28 pt when the StyleSpec has
\* no line_spacing entry, and 1.5 lines only when the entry is there and null
C9_ExactUnlessNull ==
  C9_Styled =>
    IF "line_spacing" \notin DOMAIN C9_Fmt
    THEN p_out.para.line_rule = "exact" /\ p_out.para.line = 28 * 20
    ELSE IF C9_Fmt.line_spacing # None
    THEN p_out.para.line_rule = "exact" /\ p_out.para.line = C9_Fmt.line_spacing * 20
    ELSE p_out.para.line_rule = "auto" /\ p_out.para.line = 360

\* a paragraph was styled with a StyleSpec whose line_spacing entry is null
C9_Witness ==
  /\ C9_Styled
  /\ "line_spacing" \in DOMAIN C9_Fmt
  /\ C9_Fmt.line_spacing = None
  /\ p_out.para.line = 360

\* the paragraph is styled as a table title
IsTitleStyled(b) ==
  /\ b.alignment = "center"
  /\ b.line_rule = "auto"
  /\ b.line = 240
  /\ b.space_before = 0
  /\ b.space_after = 0

\* C10 as stated: a paragraph '表1 经费统计' right before a table is taken for
\* the table's title: after the table pass it still stands right before a
\* table, centred, single-spaced, with no space before or after
C10_TitleRecognised ==
  [][(pc = "tables" /\ \E j \in 1..(Len(doc) - 1) :
        IsParagraph(doc[j]) /\ ParaText(doc[j]) = TxtTblTitle /\ IsTable(doc[j + 1]))
     => \E k \in 1..(Len(doc') - 1) :
          /\ IsParagraph(doc'[k]) /\ ParaText(doc'[k]) = TxtTblTitle
          /\ IsTable(doc'[k + 1])
          /\ IsTitleStyled(doc'[k])]_vars

\* the paragraph is styled as the unit note of a table set in size pt
IsUnitStyled(b, size) ==
  /\ b.alignment = "right"
  /\ b.space_before * 10 = size * table_defaults.unit_space_before_lines
  /\ b.space_after = 0
  /\ b.line_rule = "auto"
  /\ b.line = 240

\* C11 as stated: a paragraph '单位：万元' right after a table is taken for
\* the table's unit note: after the table pass it still stands right after
\* a table, right-aligned, with space before of half the table font size,
\* no space after and single line spacing
C11_UnitRecognised ==
  [][(pc = "tables" /\ \E j \in 1..(Len(doc) - 1) :
        IsTable(doc[j]) /\ IsParagraph(doc[j + 1]) /\ ParaText(doc[j + 1]) = TxtUnit)
     => \E k \in 1..(Len(doc') - 1) :
          /\ IsTable(doc'[k])
          /\ IsParagraph(doc'[k + 1]) /\ ParaText(doc'[k + 1]) = TxtUnit
          /\ IsUnitStyled(doc'[k + 1], TableFont(PRESETS[preset]).size)]_vars

\* C12 as stated: the table pass run before the paragraph loop gives the
\* same final document (roles, paragraph styles, tables, blank paragraphs)
\* as the table pass run after it
C12_PassesCommute ==
  pc = "compared" => saved[2].doc = saved[1].doc

\* the kind of block b and its text, or the table itself
C12_Outline(blocks) ==
  [j \in 1..Len(blocks) |->
     IF IsParagraph(blocks[j]) THEN <<"p", ParaText(blocks[j])>> ELSE <<"tbl", blocks[j]>>]

\* C12 amended: both orders give the same sequence of blocks by kind, the
\* same paragraph texts (so the same blank paragraphs) and the same tables,
\* and the same final document when the input has no table; the roles and
\* styles of the paragraphs of a document with a table may differ
C12_SameTablesAndTexts ==
  pc = "compared" =>
    /\ C12_Outline(saved[2].doc) = C12_Outline(saved[1].doc)
    /\ (TablesOf(input) = {} => saved[2].doc = saved[1].doc)

\* both orders were applied to a document with a table and a paragraph
\* that is not blank, and the paragraphs came out differently
C12_Witness ==
  /\ pc = "compared"
  /\ TablesOf(input) # {}
  /\ \E j \in 1..Len(input) : IsParagraph(input[j]) /\ ~IsBlank(input[j])
  /\ C12_Outline(saved[2].doc) = C12_Outline(saved[1].doc)
  /\ saved[2].doc # saved[1].doc

\* the formatting each character of the paragraph carries
CharFormat(para) ==
  Concat([j \in 1..Len(para.runs) |->
            [k \in 1..Len(para.runs[j].text) |-> [para.runs[j] EXCEPT !.text = <<>>]]])

\* the paragraphs of blocks: text, role and formatting of the characters
ParagraphView(blocks) ==
  LET ps == Paragraphs(blocks)
  IN  [j \in 1..Len(ps) |->
         [text |-> ParaText(ps[j]), role |-> ps[j].role, chars |-> CharFormat(ps[j])]]

\* C13 as stated: normalizing the punctuation and then formatting gives the
\* same paragraphs, with the same roles and the same formatting of their
\* text (bold included), as formatting and then normalizing
C13_NoOrderDependency ==
  pc = "compared" => ParagraphView(saved[1].doc) = ParagraphView(saved[2].doc)

\* the marks the splitter splits at
C14_Marks == {CH_COLON_F, 58, CH_JU}

\* position in s of the first mark that text other than white space
\* follows, 0 when the first mark has none after it or there is no mark
C14_SplitPoint(s) ==
  LET first == {j \in 1..Len(s) : s[j] \in C14_Marks
                                  /\ \A k \in 1..(j - 1) : s[k] \notin C14_Marks}
  IN  IF \E j \in first : \E k \in (j + 1)..Len(s) : ~IsSpace(s[k])
      THEN CHOOSE j \in first : TRUE ELSE 0

\* the texts the contract puts in the place of a paragraph with text t
C14_Texts(t) ==
  LET s == Strip(t)
      j == C14_SplitPoint(s)
  IN  IF HeadingPrefix(s) /\ j > 0
      THEN <<Slice(s, 1, j), Strip(Slice(s, j + 1, Len(s)))>>
      ELSE <<t>>

\* C14: the splitter pass replaces each paragraph whose stripped text starts
\* with a heading marker and has text after its first '：', ':' or '。' by
\* two paragraphs, the prefix up to and including the mark and the
\* remainder (stripped), and leaves every other paragraph as it is
C14_SplitterContract ==
  [][pc = "split" =>
       /\ [k \in 1..Len(doc') |-> ParaText(doc'[k])]
            = Concat([j \in 1..Len(doc) |-> C14_Texts(ParaText(doc[j]))])
       /\ \A j \in 1..Len(doc) :
            Len(C14_Texts(ParaText(doc[j]))) = 1 =>
              \E k \in 1..Len(doc') : doc'[k] = doc[j]]_vars

\* the splitter pass has split a paragraph of a document and left another
\* paragraph with a heading marker whole
C14_Witness ==
  /\ pc = "style"
  /\ run = 1
  /\ Len(doc) = Len(input) + 1
  /\ ParasWithText(doc, TxtTailSpace) # {}
  /\ ParasWithText(doc, <<40, 49, 41, 30002, CH_COLON_F>>) = {}

\* C15: a file is written only by doc.save, which follows the footer stage,
\* which follows the table pass, the paragraph loop and the splitter in
\* turn; a preset name other than official, academic, legal and custom
\* ends the process with status 1 while no document is loaded, and only
\* so; and after a stage has raised an error no file has been written
C15_SaveOnlyAtEnd ==
  [][/\ (saved' # saved => pc = "save" /\ pc' = "done"
                            /\ saved' = Append(saved, [doc |-> doc, footers |-> footers,
                                                       margins |-> margins]))
     /\ (pc' = "save" /\ pc # "save" => pc = "footer")
     /\ (pc' = "footer" /\ pc # "footer" => pc = "tables")
     /\ (pc' = "tables" /\ pc # "tables" => pc = "style")
     /\ (pc' = "style" /\ pc # "style" => pc = "split")
     /\ (pc = "cli" /\ pc' # "cli" =>
           (pc' = "exit1" <=> preset \notin {"official", "academic", "legal", "custom"}))
     /\ (pc' = "exit1" => pc \in {"cli", "exit1"} /\ doc' = <<>> /\ saved' = <<>>)
     /\ (pc' = "error" => saved' = <<>>)]_vars

\* a stage has raised an error on a loaded document and no file is written
C15_Witness ==
  /\ pc = "error"
  /\ doc # <<>>
  /\ saved = <<>>

\* the texts and the field parts of the runs of a footer paragraph
C16_Line(para) ==
  [j \in 1..Len(para.runs) |-> <<para.runs[j].run.text, para.runs[j].fld>>]

\* '— ', field begin, instruction PAGE, field end, ' —'
C16_Number ==
  << <<<<8212, 32>>, "none">>, <<<<>>, "begin">>, <<<<>>, "PAGE">>,
     <<<<>>, "end">>, <<<<32, 8212>>, "none">> >>

\* C16: after one or more invocations of add_page_number the first
\* paragraph of the odd-page footer is right-aligned and holds exactly a
\* full-width space and the page-number line, and the first paragraph of
\* the even-page footer is left-aligned and holds exactly the page-number
\* line and a full-width space; no invocation adds to what another built
C16_FooterExact ==
  (pc = "footers" /\ run > 1) =>
    /\ footers.odd # <<>> /\ footers.even # <<>>
    /\ footers.odd[1].alignment = "right"
    /\ C16_Line(footers.odd[1]) = << <<<<CH_IDEO_SPACE>>, "none">> >> \o C16_Number
    /\ footers.even[1].alignment = "left"
    /\ C16_Line(footers.even[1]) = C16_Number \o << <<<<CH_IDEO_SPACE>>, "none">> >>

\* add_page_number has been invoked more than once on footers that came
\* with several paragraphs
C16_Witness ==
  /\ pc = "footers"
  /\ run > 2
  /\ Len(footers.odd) = 2
  /\ Len(footers.odd[1].runs) = 6

\* the run carries the faces and the size of fmt, no decoration, and black
RunNormalised(r, fmt) ==
  /\ r.font_cn = fmt.font_cn
  /\ r.font_en = fmt.font_en
  /\ r.size = fmt.size
  /\ ~r.italic /\ ~r.underline /\ ~r.strike /\ ~r.double_strike
  /\ ~r.subscript /\ ~r.superscript
  /\ r.color = "000000"

\* the iteration styled a paragraph that is not empty
C17_Styled == p_pc = "done" /\ Strip(p_in.text) # <<>>

\* C17: after format_paragraph on a non-empty paragraph, whatever the role and
\* whether the bold first sentence, the bold lead-in or neither applies, the
\* paragraph has at least one run and every run has the Chinese and Latin
\* faces and the size of the StyleSpec, has italic, underline, strike,
\* double strike, subscript and superscript off, and is pure black.
C17_RunsNormalised ==
  C17_Styled =>
    /\ Len(p_out.para.runs) >= 1
    /\ \A j \in 1..Len(p_out.para.runs) :
         RunNormalised(p_out.para.runs[j], FmtOf(PresetOf(p_in.preset), p_out.role))

\* a body paragraph given in two runs, styled with first_line_bold: the first
\* sentence is one bold run, the rest a second run that is not bold
C17_Witness ==
  /\ C17_Styled
  /\ p_in.preset = "custom_bold"
  /\ p_in.two_runs
  /\ p_in.text = TxtTwoSent
  /\ p_out.role = "body"
  /\ Len(p_out.para.runs) = 2
  /\ EndsWith(p_out.para.runs[1].text, <<CH_JU>>)
  /\ p_out.para.runs[1].bold /\ ~p_out.para.runs[2].bold

\* the iteration is the one of the date '2024年3月15日', the last paragraph
\* with text of its document
C18_Case == p_pc \in {"done", "classified", "reclassified"} /\ p_in.text = TxtDate /\ p_in.last

\* C18: the paragraph '2024年3月15日' at the last non-empty position is
\* classified date whatever the total, the alignment and the snapshot, and
\* the styled paragraph is aligned right under official, academic and legal.
C18_DateRightAligned ==
  C18_Case =>
    /\ p_out.role = "date"
    /\ (p_pc = "done" /\ p_in.preset \in PresetNames)
         => p_out.para.alignment = "right"

\* the date, centred in the input, after another date of the same text in a
\* document of more than ten paragraphs, styled with the academic preset
C18_Witness ==
  /\ C18_Case
  /\ p_pc = "done"
  /\ p_in.preset = "academic"
  /\ p_in.alignment = "center"
  /\ p_in.all_texts = <<TxtDate, TxtDate>>
  /\ p_in.index = 1
  /\ p_in.total > 10
  /\ p_out.role = "date"
  /\ p_out.para.alignment = "right"

\* the values detect_para_type returns
ROLES ==
  { "title", "recipient", "heading1", "heading2", "heading3", "heading4",
    "body", "signature", "date", "attachment", "closing", "empty" }

\* detect_para_type was called on the inputs of the iteration
C19_Case == p_pc \in {"classified", "reclassified"}

C20_Case == p_pc # "classify" /\ ReHeading1(p_in.text)

\* C20: a text that begins with one or more Chinese ordinal characters
\* followed by '、' is classified heading1 whatever the index, the total, the
\* alignment and the snapshot, index 10 of 50 included: the heading rule is
\* tried before the recipient, attachment, closing, date, signature and
\* title rules and before the body fallback.
C20_HeadingRuleFirst == C20_Case => p_out.role = "heading1"

\* '一、概述', centred in the input, at index 10 of 50 paragraphs
C20_Witness ==
  /\ C20_Case
  /\ p_in.text = TxtH1
  /\ p_in.index = 10
  /\ p_in.total = 50
  /\ p_in.alignment = "center"
  /\ p_out.role = "heading1"

\* the text of a cell: the texts of its paragraphs, one after the other
C21_CellText(cell) == Concat([j \in 1..Len(cell.paras) |-> ParaText(cell.paras[j])])

\* the cell holds '合计' or '总计'
C21_HasTotal(cell) ==
  Contains(C21_CellText(cell), W_HEJI) \/ Contains(C21_CellText(cell), W_ZONGJI)

\* the table pass has run
C21_LaidOut == pc \in {"footer", "save", "done"}

\* C21: after the table pass every paragraph of a table cell whose text
\* contains '合计' or '总计' is aligned to the centre, whatever the length of
\* the cell text, its row and its column.
C21_TotalsCentred ==
  C21_LaidOut =>
    \A b \in 1..Len(doc) : IsTable(doc[b]) =>
      \A r \in 1..Len(doc[b].rows) : \A c \in 1..Len(doc[b].rows[r].cells) :
        LET cell == doc[b].rows[r].cells[c]
        IN  C21_HasTotal(cell) =>
              \A j \in 1..Len(cell.paras) : cell.paras[j].alignment = "center"

\* a table without serial-number column laid out: in the second column of
\* its last row a long text with '总计' is centred, next to it a long text
\* without a total is aligned left
C21_Witness ==
  /\ C21_LaidOut
  /\ \E b \in 1..Len(doc) :
       /\ IsTable(doc[b])
       /\ SerialCol(doc[b]) = 0
       /\ LET rows == doc[b].rows
          IN  /\ Len(rows) = 1 + MaxRows
              /\ ParaText(rows[Len(rows)].cells[1].paras[1]) = TxtLong
              /\ rows[Len(rows)].cells[1].paras[1].alignment = "left"
              /\ ParaText(rows[Len(rows)].cells[2].paras[1]) = TxtZongjiLong
              /\ rows[Len(rows)].cells[2].paras[1].alignment = "center"

\* the text matches one of the rules tried before the signature rule
Rules1to8(t) ==
  \/ ReHeading1(t) \/ ReHeading2(t)
  \/ (ReHeading3(t) /\ Len(t) < 60) \/ (ReHeading4(t) /\ Len(t) < 60)
  \/ (ReRecipient(t) /\ Len(t) < 20)
  \/ ReAttachment(t) \/ closing_patterns(t) \/ date_patterns(t)

\* the paragraph of the iteration was classified; its document has at most
\* ten paragraphs with text, so the paragraph is among the last ten of them;
\* its text is shorter than 30, ends with an organisation suffix and matches
\* none of the rules before the signature rule
C22_Case ==
  /\ p_pc # "classify"
  /\ Len(p_in.all_texts) <= 10
  /\ Strip(p_in.text) # <<>>
  /\ Len(Strip(p_in.text)) < 30
  /\ ReOrgSuffix(Strip(p_in.text))
  /\ ~Rules1to8(Strip(p_in.text))

\* C22: the signature rule applies to a paragraph exactly when it is among
\* the last ten paragraphs with text and its text is shorter than 30; empty
\* paragraphs do not count towards the window.  So a short text with an
\* organisation suffix among the last ten paragraphs with text is a
\* signature, however many empty paragraphs follow it.
C22_WindowSkipsEmpty == C22_Case => p_out.role = "signature"

\* the paragraph of the iteration was classified; it is inside the window
\* of the signature rule, shorter than 30, without organisation suffix, and
\* matches none of the rules before the signature rule
C23_Case ==
  /\ p_pc # "classify"
  /\ Strip(p_in.text) # <<>>
  /\ p_in.index >= p_in.total - 10
  /\ Len(Strip(p_in.text)) < 30
  /\ ~ReOrgSuffix(Strip(p_in.text))
  /\ ~Rules1to8(Strip(p_in.text))

\* one of the three paragraphs with text that follow the paragraph is a date
C23_DateAmongNextThree ==
  \E j \in 1..Min2(3, Len(p_in.following)) : date_patterns(p_in.following[j])

\* C23: such a paragraph is a signature if and only if one of the three
\* paragraphs with text that follow it in the document matches a date
\* pattern, also when its text occurs more than once in the document.
C23_SignatureIffDateFollows ==
  C23_Case => (p_out.role = "signature" <=> C23_DateAmongNextThree)

\* the paragraph of the iteration was classified and its text matches one
\* of the date patterns
C24_Case == p_pc # "classify" /\ date_patterns(Strip(p_in.text))

\* C24: a text in one of the date formats (YYYY年M月D日, YYYY.M.D, YYYY/M/D,
\* YYYY-M-D, the Chinese-numeral year form) is classified date whatever the
\* index, the total, the alignment and the snapshot: none of the rules tried
\* before the date rule captures such a text.
C24_DateFormatsAreDates == C24_Case => p_out.role = "date"

\* the snapshot of the two-phase run: the document after the headings were
\* split and before any paragraph is styled
C25_Snapshot == p_out.snapshot

\* the role of block j computed from the snapshot alone
C25_SnapshotRole(j) ==
  detect_para_type(ParaText(C25_Snapshot[j]),
                   Len(SelectSeq(SubSeq(C25_Snapshot, 1, j - 1), IsParagraph)),
                   Len(SelectSeq(C25_Snapshot, IsParagraph)),
                   C25_Snapshot[j].alignment,
                   AllTexts(C25_Snapshot))

\* C25: the classify-then-style loop equals a two-phase run.  While the loop
\* runs and after it, no block was inserted or removed since the snapshot;
\* a paragraph the loop went over has its snapshot text and, when it has
\* text, the role computed from the snapshot; a block the loop has not
\* reached is as it was in the snapshot; and after the loop the document is
\* the snapshot styled paragraph by paragraph with the snapshot roles.
C25_TwoPhase ==
  p_pc \in {"loop", "done"} =>
    /\ Len(doc) = Len(C25_Snapshot)
    /\ \A j \in 1..Len(doc) :
         IF j >= p_in.block THEN doc[j] = C25_Snapshot[j]
         ELSE IsParagraph(C25_Snapshot[j]) =>
                /\ IsParagraph(doc[j])
                /\ ParaText(doc[j]) = ParaText(C25_Snapshot[j])
                /\ Strip(ParaText(doc[j])) # <<>> => doc[j].role = C25_SnapshotRole(j)
    /\ p_pc = "done" =>
         doc = [ j \in 1..Len(doc) |->
                   IF IsParagraph(C25_Snapshot[j]) /\ ~IsBlank(C25_Snapshot[j])
                   THEN [ format_paragraph(C25_Snapshot[j],
                                           FmtOf(PresetOf(preset), C25_SnapshotRole(j)),
                                           C25_SnapshotRole(j),
                                           FirstLineBold(PresetOf(preset)))
                            EXCEPT !.role = C25_SnapshotRole(j) ]
                   ELSE C25_Snapshot[j] ]

\* the loop is through on a split heading, its date and a centred short
\* text: heading1, date and title, the lines before the centred one styled
\* before it was classified
C25_Witness ==
  /\ p_pc = "done"
  /\ Len(input) = 2
  /\ Len(doc) = 3
  /\ \A j \in 1..3 : IsParagraph(doc[j])
  /\ doc[1].role = "heading1"
  /\ doc[2].role = "date" /\ doc[2].alignment = "right"
  /\ C25_Snapshot[3].alignment = "center"
  /\ doc[3].role = "title"

\* the texts of the runs of the paragraph before and after format_paragraph
C26_InTexts ==
  LET runs == RawParagraphRuns(p_in.text, p_in.alignment, p_in.two_runs).runs
  IN  [j \in 1..Len(runs) |-> runs[j].text]
C26_OutTexts == [j \in 1..Len(p_out.para.runs) |-> p_out.para.runs[j].text]

\* format_paragraph has run on a paragraph with text
C26_Case == p_pc = "done" /\ Strip(p_in.text) # <<>>

\* the run list was replaced: the runs no longer hold the texts they held
C26_Replaced == C26_OutTexts # C26_InTexts

\* the runs are the text up to position k and the rest of the text
C26_SplitAt(k) ==
  C26_OutTexts = <<SubSeq(p_in.text, 1, k)>>
                 \o (IF k < Len(p_in.text)
                     THEN <<SubSeq(p_in.text, k + 1, Len(p_in.text))>> ELSE <<>>)

\* the runs are the first sentence and the rest / the lead-in and the rest
C26_FirstSentence ==
  Find(p_in.text, CH_JU) # 0 /\ C26_SplitAt(Find(p_in.text, CH_JU))
C26_LeadIn == LeadInLen(p_in.text) > 0 /\ C26_SplitAt(LeadInLen(p_in.text))

\* C26: the two sub-behaviours of format_paragraph exclude each other and
\* are limited to the role body: the run list of a paragraph that is not
\* body is never replaced; a replaced run list is either the first sentence
\* and the rest, with first_line_bold set, or the lead-in and the rest, with
\* first_line_bold not set, never both; its texts joined give the text the
\* paragraph had before the call, and its first run is bold.
C26_SubBehaviours ==
  C26_Case =>
    /\ p_out.role # "body" => ~C26_Replaced
    /\ C26_Replaced =>
         /\ Concat(C26_OutTexts) = p_in.text
         /\ p_out.para.runs[1].bold
         /\ IF FirstLineBold(PresetOf(p_in.preset))
            THEN C26_FirstSentence /\ ~C26_LeadIn
            ELSE C26_LeadIn /\ ~C26_FirstSentence

\* a body paragraph in two runs with a lead-in and a full stop, styled with
\* first_line_bold: the first sentence is the bold run, not the lead-in
C26_Witness ==
  /\ C26_Case
  /\ p_in.preset = "custom_bold"
  /\ p_in.text = TxtLeadStop
  /\ p_in.two_runs
  /\ p_out.role = "body"
  /\ C26_Replaced
  /\ C26_FirstSentence
  /\ p_out.para.runs[1].bold /\ ~p_out.para.runs[2].bold

\* the texts of the paragraphs of a document, in order
C27_TextsOf(blocks) ==
  LET ps == Paragraphs(blocks) IN [j \in 1..Len(ps) |-> ParaText(ps[j])]

\* C27 as stated: the heading split only moves text between paragraphs: the
\* text of the head paragraph followed by the text of the new paragraph is
\* the text of the paragraph that was split, so the texts of all paragraphs
\* joined are the same before and after the splitter pass.
C27_OnlyMovesText ==
  [][pc = "split" => Concat(C27_TextsOf(doc')) = Concat(C27_TextsOf(doc))]_vars

\* t is head and tail with white space, and nothing else, before, between
\* and after them; head and tail have no white space at their ends
C27_SplitOf(t, head, tail) ==
  /\ head # <<>> /\ tail # <<>>
  /\ Strip(head) = head /\ Strip(tail) = tail
  /\ \E p \in 0..Len(t), q \in 0..Len(t) :
       /\ p + Len(head) <= q
       /\ q + Len(tail) <= Len(t)
       /\ AllSpaces(t, 1, p)
       /\ SubSeq(t, p + 1, p + Len(head)) = head
       /\ AllSpaces(t, p + Len(head) + 1, q)
       /\ SubSeq(t, q + 1, q + Len(tail)) = tail
       /\ AllSpaces(t, q + Len(tail) + 1, Len(t))

\* the texts new come from the texts old by leaving a text as it is or by
\* putting head and tail in its place
RECURSIVE C27_Moved(_, _)
C27_Moved(old, new) ==
  IF old = <<>> THEN new = <<>>
  ELSE \/ /\ new # <<>>
          /\ Head(new) = Head(old)
          /\ C27_Moved(Tail(old), Tail(new))
       \/ /\ Len(new) >= 2
          /\ C27_SplitOf(Head(old), new[1], new[2])
          /\ C27_Moved(Tail(old), Tail(Tail(new)))

\* C27 amended: whenever the splitter splits a paragraph, the original text
\* is the text of the head paragraph and the text of the new paragraph with
\* white space, and nothing else, before, between and after them: the split
\* removes the white space at the two ends of the text and on both sides of
\* the split point, and adds, removes or changes no other character.
C27_MovesTextDropsSpace ==
  [][pc = "split" => C27_Moved(C27_TextsOf(doc), C27_TextsOf(doc'))]_vars

\* the splitter has split the paragraph '  1. 甲: 乙  ' into '1. 甲:' and
\* '乙': five characters of white space are gone
C27_Witness ==
  /\ pc = "style"
  /\ run = 1
  /\ C27_TextsOf(input) = <<TxtPadded>>
  /\ C27_TextsOf(doc) = <<SubSeq(TxtPadded, 3, 7), SubSeq(TxtPadded, 9, 9)>>

\* the positions of the paragraphs with text in the snapshot, in order
C28_Positions ==
  LET WithText(j) == IsParagraph(p_out.snapshot[j]) /\ ~IsBlank(p_out.snapshot[j])
  IN  SelectSeq([j \in 1..Len(p_out.snapshot) |-> j], WithText)

\* the number of paragraphs with text that have the role
C28_Count(role) ==
  Cardinality({j \in 1..Len(doc) : /\ IsParagraph(doc[j]) /\ ~IsBlank(doc[j])
                                    /\ doc[j].role = role})

RECURSIVE C28_Total(_, _)
C28_Total(stats, keys) ==
  IF keys = {} THEN 0
  ELSE LET k == CHOOSE x \in keys : TRUE
       IN  stats[k] + C28_Total(stats, keys \ {k})

\* C28: in the paragraph pass every top-level paragraph with text is
\* classified and styled exactly once, in document order, with the
\* StyleSpec the preset has for its role, or with the body StyleSpec when
\* the preset has none; an empty paragraph is skipped and stays as it was;
\* and the counts per role add up to the number of paragraphs with text.
C28_EveryParagraphOnce ==
  p_pc = "done" =>
    /\ p_out.styled = C28_Positions
    /\ \A j \in 1..Len(doc) : IsParagraph(doc[j]) =>
         IF IsBlank(p_out.snapshot[j]) THEN doc[j] = p_out.snapshot[j]
         ELSE LET p == PresetOf(preset)
                  fmt == IF doc[j].role \in DOMAIN p THEN p[doc[j].role] ELSE p["body"]
              IN  /\ doc[j].role \in STAT_KEYS
                  /\ HasStyle(doc[j], fmt)
                  /\ \A k \in 1..Len(doc[j].runs) : RunNormalised(doc[j].runs[k], fmt)
    /\ DOMAIN p_in.stats = STAT_KEYS
    /\ \A r \in STAT_KEYS : p_in.stats[r] = C28_Count(r)
    /\ C28_Total(p_in.stats, STAT_KEYS) = Len(C28_Positions)

\* the pass is through on an empty paragraph, an organisation and a short
\* text under the settings without a signature entry: the empty paragraph
\* is as it was, the signature has the body style, two paragraphs counted
C28_Witness ==
  /\ p_pc = "done"
  /\ preset = "custom_no_signature"
  /\ Len(doc) = 3
  /\ \A j \in 1..3 : IsParagraph(doc[j])
  /\ IsBlank(doc[1]) /\ doc[1].left_indent = 21
  /\ doc[2].role = "signature"
  /\ doc[2].alignment = PRESETS["official"]["body"].align
  /\ doc[2].alignment # PRESETS["official"]["signature"].align
  /\ p_out.styled = <<2, 3>>
  /\ p_in.stats["signature"] = 1
  /\ C28_Total(p_in.stats, STAT_KEYS) = 2

\* C29: fix_text is idempotent, fix_text(fix_text(t)) = fix_text(t) for every
\* text t, so the punctuation normalizer run on its own output changes no
\* paragraph: the file a run writes equals the file the run before wrote.
C29_Idempotent ==
  \A k \in 2..Len(saved) : saved[k].doc = saved[k - 1].doc

====
